---- MODULE Spec2Model ----
(***************************************************************************)
(* Model of the extraction + diff engine of my-tiny-toolset:               *)
(*   - TOOLSET/version_tracker.py   (VersionTracker: walk, fingerprint,    *)
(*                                   export, compare_with_previous)        *)
(*   - tools/code_analyzer.py       (CodeAnalyzer: walk)                   *)
(*   - TOOLSET/validation-tools/drift_detector.py (detect_drift,           *)
(*                                   calculate_drift_score, main)          *)
(* Python values are modelled as follows: a dict is a sequence of          *)
(* [k, v] entries in insertion order with unique keys, a list is a         *)
(* sequence, None is the sentinel NoneVal, a dataclass instance or a JSON  *)
(* object is a record.                                                     *)
(***************************************************************************)
EXTENDS Integers, Sequences, FiniteSets, TLC

VARIABLES
    \* ---- VersionTracker run (version_tracker.py) ----
    pc,              \* position of the version_tracker run in main()
    models,          \* self.models : dict name -> ModelVersion
    disk,            \* content of the snapshot file on disk (NoFile if absent)
    changes,         \* result of compare_with_previous (NotCompared before)
    \* ---- directory walk of either analyzer ----
    tool,            \* which analyzer walks: "version_tracker" / "code_analyzer"
    python_files,    \* the list python_files built by analyze_directory
    pos,             \* index of the next file of python_files to analyse
    endpoints,       \* VersionTracker.endpoints
    files_analyzed,  \* VersionTracker.files_analyzed
    ca_models,       \* CodeAnalyzer.models
    ca_functions,    \* CodeAnalyzer.functions
    ca_mappings,     \* CodeAnalyzer.mappings
    raised,          \* an exception escaped analyze_directory to its caller
    \* ---- drift_detector run (drift_detector.py) ----
    dpc,             \* position of the drift_detector run in main()
    collider_exists, \* the application repo directory exists
    inventory_file,  \* content of the inventory YAML (NoFile if absent)
    registry,        \* MANAGED_METHODS of the application (ImportFails if
                     \* the import raises)
    inventory,       \* the loaded inventory: dict method name -> entry
    code_methods,    \* get_code_methods(): dict method name -> entry
    ci_mode,         \* args.ci_mode
    drift,           \* result of detect_drift
    score,           \* result of calculate_drift_score
    exit_code,       \* status passed to sys.exit (NoExit while running)
    \* ---- MappingAnalyzer._calculate_depth (mapping_analyzer.py) ----
    call_stack,      \* the activations of _calculate_depth, innermost last
    returned         \* <<what the outermost call returned>> (<<>> before)

vars == <<pc, models, disk, changes, tool, python_files, pos, endpoints,
          files_analyzed, ca_models, ca_functions, ca_mappings, raised,
          dpc, collider_exists, inventory_file, registry,
          inventory, code_methods, ci_mode, drift, score, exit_code,
          call_stack, returned>>

trackerVars == <<pc, models, disk, changes>>
walkVars == <<tool, python_files, pos, endpoints, files_analyzed,
              ca_models, ca_functions, ca_mappings, raised>>
driftVars == <<dpc, collider_exists, inventory_file, registry,
               inventory, code_methods, ci_mode, drift, score, exit_code>>
depthVars == <<call_stack, returned>>

(***************************************************************************)
(* Bounds                                                                  *)
(***************************************************************************)
MaxFields == 2      \* longest class body (annotated fields) of a User class
MaxFiles == 3       \* longest list of python files walked
NumMethods == 2     \* method names known to the inventory / the registry
MaxItems == 4       \* longest list in one category of a drift dict
MaxDecorators == 2  \* longest decorator list of a generated function
MaxRefFields == 2   \* longest class body of a model given to _calculate_depth

(***************************************************************************)
(* Python values                                                           *)
(***************************************************************************)
NoneVal == "<None>"

\* no exit status yet: the process is still running
NoExit == "running"

\* Python's order on the strings that are sorted in this model
\* (str.__lt__ compares code points: "B" < "M" < "a" < "b", ":" < letters).
StrOrder == <<"BaseModel", "Mixin", "a:int", "a:str", "b:int",
              "f1:Dict[Foo, User]", "f1:Foo", "f1:User", "f1:int",
              "f2:Dict[Foo, User]", "f2:Foo", "f2:User", "f2:int",
              "f3:Dict[Foo, User]", "f3:Foo", "f3:User", "f3:int">>

StrRank(s) == CHOOSE i \in 1..Len(StrOrder) : StrOrder[i] = s

StrLess(s, t) == StrRank(s) < StrRank(t)

RECURSIVE InsertSorted(_, _)
InsertSorted(s, x) ==
    IF s = <<>> THEN <<x>>
    ELSE IF StrLess(x, Head(s)) THEN <<x>> \o s
         ELSE <<Head(s)>> \o InsertSorted(Tail(s), x)

\* sorted(list) of strings
RECURSIVE sorted(_)
sorted(s) ==
    IF s = <<>> THEN <<>>
    ELSE InsertSorted(sorted(SubSeq(s, 1, Len(s) - 1)), s[Len(s)])

Range(s) == { s[i] : i \in 1..Len(s) }

RECURSIVE Concat(_)
Concat(ss) == IF ss = <<>> THEN <<>> ELSE Head(ss) \o Concat(Tail(ss))

\* ---- dict: sequence of [k, v] entries, insertion ordered, unique keys ----
EmptyDict == <<>>

DictKeys(d) == [i \in 1..Len(d) |-> d[i].k]

DictValues(d) == [i \in 1..Len(d) |-> d[i].v]

DictHas(d, key) == \E i \in 1..Len(d) : d[i].k = key

DictGet(d, key) == d[CHOOSE i \in 1..Len(d) : d[i].k = key].v

\* d[key] = val : an existing key keeps its position, a new key is appended
DictSet(d, key, val) ==
    IF DictHas(d, key)
    THEN [i \in 1..Len(d) |-> IF d[i].k = key THEN [k |-> key, v |-> val] ELSE d[i]]
    ELSE Append(d, [k |-> key, v |-> val])

\* {key(x): x for x in s} : later elements overwrite earlier ones
RECURSIVE DictByKey(_, _)
DictByKey(s, keyName) ==
    IF s = <<>> THEN EmptyDict
    ELSE DictSet(DictByKey(SubSeq(s, 1, Len(s) - 1), keyName),
                 s[Len(s)][keyName], s[Len(s)])

(***************************************************************************)
(* Syntax trees (the part of Python's ast that the analyzers look at)      *)
(***************************************************************************)
Name(id) == [node |-> "Name", id |-> id]

Attribute(value, attr) == [node |-> "Attribute", value |-> value, attr |-> attr]

Constant(value) == [node |-> "Constant", value |-> value]

Call(func, args, keywords) ==
    [node |-> "Call", func |-> func, args |-> args, keywords |-> keywords]

AnnAssign(target, annotation, value) ==
    [node |-> "AnnAssign", target |-> Name(target),
     annotation |-> annotation, value |-> value]

Assign(target, value) ==
    [node |-> "Assign", target |-> Name(target), value |-> value]

ClassDef(name, bases, decorator_list, body) ==
    [node |-> "ClassDef", name |-> name, bases |-> bases,
     decorator_list |-> decorator_list, body |-> body]

FunctionDef(name, decorator_list, args, returns) ==
    [node |-> "FunctionDef", name |-> name, decorator_list |-> decorator_list,
     args |-> args, returns |-> returns]

\* ast.iter_child_nodes, restricted to statements: the body of a class
\* (bodies of functions are not modelled)
iter_child_nodes(n) == IF n.node = "ClassDef" THEN n.body ELSE <<>>

\* ast.walk(tree): breadth first, "todo" is the deque of nodes still to yield
RECURSIVE ast_walk(_)
ast_walk(todo) ==
    IF todo = <<>> THEN <<>>
    ELSE <<Head(todo)>> \o ast_walk(Tail(todo) \o iter_child_nodes(Head(todo)))

\* _get_attr_name: walk the attribute chain, collecting attrs, then the
\* innermost Name; the parts are collected outermost-first and reversed.
RECURSIVE AttrParts(_)
AttrParts(current) ==
    IF current.node = "Attribute"
    THEN <<current.attr>> \o AttrParts(current.value)
    ELSE IF current.node = "Name" THEN <<current.id>> ELSE <<>>

Reversed(s) == [i \in 1..Len(s) |-> s[Len(s) + 1 - i]]

RECURSIVE Join(_, _)
Join(sep, parts) ==
    IF parts = <<>> THEN ""
    ELSE IF Len(parts) = 1 THEN parts[1]
         ELSE parts[1] \o sep \o Join(sep, Tail(parts))

get_attr_name(n) == Join(".", Reversed(AttrParts(n)))

get_decorator_name(decorator) ==
    IF decorator.node = "Name" THEN decorator.id
    ELSE IF decorator.node = "Call"
         THEN IF decorator.func.node = "Name" THEN decorator.func.id
              ELSE IF decorator.func.node = "Attribute"
                   THEN get_attr_name(decorator.func)
                   ELSE ""
         ELSE IF decorator.node = "Attribute" THEN get_attr_name(decorator)
              ELSE ""

\* ast.unparse of an annotation / a default value: these nodes are carried
\* as their source text already, NoneVal standing for "no node"
get_annotation_str(annotation) == IF annotation = NoneVal THEN "" ELSE annotation

get_default_value(value) == value

\* 'sub in text' for the texts that occur in this model: the substrings,
\* among the ones the analyzers look for, that each text contains
SubstringsOf(text) ==
    CASE text = "BaseModel" -> {"BaseModel"}
      [] text = "pydantic.BaseModel" -> {"BaseModel"}
      [] text = "User" -> {"User"}
      [] text = "List[User]" -> {"User"}
      [] text = "Foo" -> {"Foo"}
      [] text = "UserRequest" -> {"User", "Request"}
      [] text = "FooResponse" -> {"Foo", "Response"}
      [] text = "Dict[Foo, User]" -> {"Foo", "User"}
      [] OTHER -> {}

Contains(text, sub) == sub \in SubstringsOf(text)

ContainsBaseModel(base) == Contains(base, "BaseModel")

(***************************************************************************)
(* VersionTracker._parse_model                                             *)
(***************************************************************************)
NoModel == [none |-> TRUE]

base_classes_of(n) ==
    LET named == SelectSeq(n.bases, LAMBDA b : b.node \in {"Name", "Attribute"})
    IN [i \in 1..Len(named) |->
           IF named[i].node = "Name" THEN named[i].id ELSE get_attr_name(named[i])]

\* FieldInfo with every field taken as required
FieldInfo_always_required(item) ==
    [name |-> item.target.id,
     type |-> get_annotation_str(item.annotation),
     default |-> IF item.value # NoneVal THEN get_default_value(item.value) ELSE NoneVal,
     required |-> TRUE]

FieldInfo(item) ==
    LET default_value == IF item.value # NoneVal
                         THEN get_default_value(item.value) ELSE NoneVal
    IN [name |-> item.target.id,
        type |-> get_annotation_str(item.annotation),
        default |-> default_value,
        required |-> (default_value = NoneVal)]

fields_of(n) ==
    LET items == SelectSeq(n.body, LAMBDA item :
                     item.node = "AnnAssign" /\ item.target.node = "Name")
    IN [i \in 1..Len(items) |-> FieldInfo(items[i])]

\* json.dumps(model_structure, sort_keys=True): the text of the object with
\* its keys in sorted order (bases, fields, name)
json_dumps_sorted(structure) ==
    "{bases: [" \o Join(", ", structure.bases) \o "], fields: ["
        \o Join(", ", structure.fields) \o "], name: " \o structure.name \o "}"

\* hashlib.md5(text).hexdigest()[:8], idealised as collision free: the
\* digest is identified with the text it was computed from
md5_hexdigest_8(text) == "md5:" \o text

model_hash_unsorted(name, base_classes, fields) ==
    md5_hexdigest_8(json_dumps_sorted(
        [name |-> name,
         bases |-> base_classes,
         fields |-> [i \in 1..Len(fields) |-> fields[i].name \o ":" \o fields[i].type]]))

\* a fingerprint that also covers the default values of the fields
model_hash_with_defaults(name, base_classes, fields) ==
    md5_hexdigest_8(json_dumps_sorted(
        [name |-> name,
         bases |-> sorted(base_classes),
         fields |-> sorted([i \in 1..Len(fields) |->
                               fields[i].name \o ":" \o fields[i].type])])
        \o ", defaults: [" \o Join(", ", [i \in 1..Len(fields) |-> fields[i].default]) \o "]")

model_hash(name, base_classes, fields) ==
    md5_hexdigest_8(json_dumps_sorted(
        [name |-> name,
         bases |-> sorted(base_classes),
         fields |-> sorted([i \in 1..Len(fields) |->
                               fields[i].name \o ":" \o fields[i].type])]))

\* _parse_model without the "not a model" early return
parse_model_every_class(n, file_path) ==
    LET base_classes == base_classes_of(n)
        decorators == [i \in 1..Len(n.decorator_list) |->
                          get_decorator_name(n.decorator_list[i])]
        fields == fields_of(n)
    IN [name |-> n.name,
        file_path |-> file_path,
        base_classes |-> base_classes,
        fields |-> fields,
        is_pydantic |-> \E i \in 1..Len(base_classes) : ContainsBaseModel(base_classes[i]),
        is_dataclass |-> "dataclass" \in Range(decorators),
        hash |-> model_hash(n.name, base_classes, fields),
        used_in_endpoints |-> <<>>]

parse_model(n, file_path) ==
    LET base_classes == base_classes_of(n)
        is_pydantic == \E i \in 1..Len(base_classes) : ContainsBaseModel(base_classes[i])
        decorators == [i \in 1..Len(n.decorator_list) |->
                          get_decorator_name(n.decorator_list[i])]
        is_dataclass == "dataclass" \in Range(decorators)
        fields == fields_of(n)
    IN IF ~(is_pydantic \/ is_dataclass) THEN NoModel
       ELSE [name |-> n.name,
             file_path |-> file_path,
             base_classes |-> base_classes,
             fields |-> fields,
             is_pydantic |-> is_pydantic,
             is_dataclass |-> is_dataclass,
             hash |-> model_hash(n.name, base_classes, fields),
             used_in_endpoints |-> <<>>]

\* _extract_models keeping the record a name already has (first-wins)
extract_model_first_wins(ms, n, file_path) ==
    LET Store(model) == IF model # NoModel /\ ~DictHas(ms, model.name)
                        THEN DictSet(ms, model.name, model) ELSE ms
    IN Store(parse_model(n, file_path))

\* one iteration of the loop of _extract_models on a ClassDef node
extract_model(ms, n, file_path) ==
    LET Store(model) == IF model # NoModel THEN DictSet(ms, model.name, model) ELSE ms
    IN Store(parse_model(n, file_path))

(***************************************************************************)
(* VersionTracker._parse_endpoint / _extract_endpoints                     *)
(***************************************************************************)
NoEndpoint == [none |-> TRUE]

HttpVerbs == {"get", "post", "put", "patch", "delete", "options", "head"}

\* str.upper() on the decorator names that pass the verb test
Upper(name) ==
    CASE name = "get" -> "GET"
      [] name = "post" -> "POST"
      [] name = "put" -> "PUT"
      [] name = "patch" -> "PATCH"
      [] name = "delete" -> "DELETE"
      [] name = "options" -> "OPTIONS"
      [] name = "head" -> "HEAD"
      [] OTHER -> name

\* the loop over decorator.keywords (tags=[...], deprecated=...)
RECURSIVE ScanKeywords(_, _)
ScanKeywords(keywords, acc) ==
    IF keywords = <<>> THEN acc
    ELSE LET keyword == Head(keywords)
             acc2 == IF keyword.arg = "tags" /\ keyword.value.node = "List"
                     THEN [acc EXCEPT !.tags =
                              LET cs == SelectSeq(keyword.value.elts,
                                                  LAMBDA e : e.node = "Constant")
                              IN [i \in 1..Len(cs) |-> cs[i].value]]
                     ELSE IF keyword.arg = "deprecated" /\ keyword.value.node = "Constant"
                          THEN [acc EXCEPT !.deprecated = keyword.value.value]
                          ELSE acc
         IN ScanKeywords(Tail(keywords), acc2)

\* the loop over node.decorator_list: the four locals are shared by all
\* decorators, each matching decorator overwrites what it declares
RECURSIVE ScanDecorators(_, _)
ScanDecorators(decorators, acc) ==
    IF decorators = <<>> THEN acc
    ELSE LET decorator == Head(decorators)
             dec_name == get_decorator_name(decorator)
             acc2 ==
                 IF dec_name \in HttpVerbs
                 THEN LET a1 == [acc EXCEPT !.http_method = Upper(dec_name)]
                          a2 == IF /\ decorator.node = "Call"
                                   /\ decorator.args # <<>>
                                   /\ decorator.args[1].node = "Constant"
                                THEN [a1 EXCEPT !.endpoint_path = decorator.args[1].value]
                                ELSE a1
                      IN IF decorator.node = "Call"
                         THEN ScanKeywords(decorator.keywords, a2)
                         ELSE a2
                 ELSE acc
         IN ScanDecorators(Tail(decorators), acc2)

\* "for model_name in self.models.keys(): if model_name in type_str: ... break"
FirstModelIn(ms, type_str) ==
    LET hits == SelectSeq(DictKeys(ms), LAMBDA model_name : Contains(type_str, model_name))
    IN IF hits = <<>> THEN NoneVal ELSE hits[1]

\* the loop over node.args.args: every annotated parameter that names a
\* known model assigns request_model
RECURSIVE ScanArgs(_, _, _)
ScanArgs(args, ms, request_model) ==
    IF args = <<>> THEN request_model
    ELSE LET arg == Head(args)
             hit == IF arg.annotation # NoneVal
                    THEN FirstModelIn(ms, get_annotation_str(arg.annotation))
                    ELSE NoneVal
         IN ScanArgs(Tail(args), ms, IF hit # NoneVal THEN hit ELSE request_model)

\* d: the locals http_method, endpoint_path, tags, deprecated after the
\* decorator loop
parse_endpoint(n, file_path, ms) ==
    LET EndpointInfo(d) ==
            IF d.http_method = NoneVal THEN NoEndpoint
            ELSE [path |-> IF d.endpoint_path \in {NoneVal, ""}
                           THEN "/" \o n.name ELSE d.endpoint_path,
                  method |-> d.http_method,
                  function_name |-> n.name,
                  file_path |-> file_path,
                  request_model |-> ScanArgs(n.args, ms, NoneVal),
                  response_model |-> IF n.returns # NoneVal
                                     THEN FirstModelIn(ms, get_annotation_str(n.returns))
                                     ELSE NoneVal,
                  tags |-> d.tags,
                  deprecated |-> d.deprecated]
    IN EndpointInfo(ScanDecorators(n.decorator_list,
                                   [http_method |-> NoneVal, endpoint_path |-> NoneVal,
                                    tags |-> <<>>, deprecated |-> FALSE]))

\* models[name].used_in_endpoints.append(label) when name is a known model
LinkModel(ms, name, label) ==
    IF name # NoneVal /\ DictHas(ms, name)
    THEN DictSet(ms, name,
                 [DictGet(ms, name) EXCEPT !.used_in_endpoints = Append(@, label)])
    ELSE ms

\* one iteration of the loop of _extract_endpoints on a function node;
\* st = [models, endpoints]
extract_endpoint(st, n, file_path) ==
    LET Record(endpoint) ==
            IF endpoint = NoEndpoint THEN st
            ELSE LET label == endpoint.method \o " " \o endpoint.path
                 IN [models |-> LinkModel(LinkModel(st.models, endpoint.request_model,
                                                    label),
                                          endpoint.response_model, label),
                     endpoints |-> Append(st.endpoints, endpoint)]
    IN Record(parse_endpoint(n, file_path, st.models))

(***************************************************************************)
(* VersionTracker.analyze_directory / _analyze_file                        *)
(***************************************************************************)
IsClass(n) == n.node = "ClassDef"

IsFunction(n) == n.node \in {"FunctionDef", "AsyncFunctionDef"}

RECURSIVE FoldModels(_, _, _)
FoldModels(ms, nodes, file_path) ==
    IF nodes = <<>> THEN ms
    ELSE FoldModels(extract_model(ms, Head(nodes), file_path), Tail(nodes), file_path)

RECURSIVE FoldEndpoints(_, _, _)
FoldEndpoints(st, nodes, file_path) ==
    IF nodes = <<>> THEN st
    ELSE FoldEndpoints(extract_endpoint(st, Head(nodes), file_path), Tail(nodes), file_path)

\* _extract_models(tree) then _extract_endpoints(tree): two walks of the tree
vt_extract(st, file) ==
    LET ms == FoldModels(st.models, SelectSeq(file.nodes, IsClass), file.path)
    IN FoldEndpoints([models |-> ms, endpoints |-> st.endpoints],
                     SelectSeq(file.nodes, IsFunction), file.path)

\* _analyze_file without its try/except: the failure reaches the caller
vt_analyze_file_uncaught(st, file) ==
    IF file.status # "ok"
    THEN [models |-> st.models, endpoints |-> st.endpoints, raised |-> TRUE]
    ELSE LET Returned(r) ==
                 [models |-> r.models, endpoints |-> r.endpoints, raised |-> FALSE]
         IN Returned(vt_extract(st, file))

\* _analyze_file: open/read/ast.parse inside try; "except Exception" prints
\* and returns, so a failing file changes nothing
vt_analyze_file(st, file) ==
    IF file.status # "ok"
    THEN [models |-> st.models, endpoints |-> st.endpoints, raised |-> FALSE]
    ELSE LET Returned(r) ==
                 [models |-> r.models, endpoints |-> r.endpoints, raised |-> FALSE]
         IN Returned(vt_extract(st, file))

(***************************************************************************)
(* CodeAnalyzer (tools/code_analyzer.py)                                   *)
(***************************************************************************)
\* CodeAnalyzer._get_decorator_name: as the tracker's, but anything else is
\* rendered with str(decorator)
ca_get_decorator_name(decorator) ==
    IF decorator.node \in {"Name", "Attribute"} THEN get_decorator_name(decorator)
    ELSE IF decorator.node = "Call" /\ decorator.func.node \in {"Name", "Attribute"}
         THEN get_decorator_name(decorator)
         ELSE "<ast object>"

\* CodeAnalyzer._extract_model: every class is appended to self.models
ca_extract_model(n, file_path) ==
    LET base_classes == base_classes_of(n)
        decorators == [i \in 1..Len(n.decorator_list) |->
                          ca_get_decorator_name(n.decorator_list[i])]
        items == SelectSeq(n.body, LAMBDA item :
                     item.node = "AnnAssign" /\ item.target.node = "Name")
    IN [name |-> n.name,
        file_path |-> file_path,
        base_classes |-> base_classes,
        fields |-> [i \in 1..Len(items) |->
                       [name |-> items[i].target.id,
                        type |-> get_annotation_str(items[i].annotation),
                        default |-> IF items[i].value # NoneVal
                                    THEN get_default_value(items[i].value) ELSE NoneVal]],
        decorators |-> decorators,
        is_pydantic |-> \E i \in 1..Len(base_classes) : ContainsBaseModel(base_classes[i]),
        is_dataclass |-> "dataclass" \in Range(decorators)]

\* the FunctionInfo built by _extract_function; _extract_from_ast calls it
\* without class_name, which therefore keeps its default None
ca_function_info(n, file_path) ==
    [name |-> n.name,
     file_path |-> file_path,
     class_name |-> NoneVal,
     parameters |-> [i \in 1..Len(n.args) |->
                        [name |-> n.args[i].arg, type |-> n.args[i].annotation]],
     return_type |-> n.returns,
     decorators |-> [i \in 1..Len(n.decorator_list) |->
                        ca_get_decorator_name(n.decorator_list[i])],
     is_async |-> (n.node = "AsyncFunctionDef")]

CaHttpVerbs == {"get", "post", "put", "patch", "delete"}

\* the decorator loop of _detect_req_resp_mapping
RECURSIVE CaScanDecorators(_, _)
CaScanDecorators(decorators, acc) ==
    IF decorators = <<>> THEN acc
    ELSE LET decorator == Head(decorators)
             dec_name == ca_get_decorator_name(decorator)
             acc2 ==
                 IF dec_name \in CaHttpVerbs
                 THEN LET a1 == [acc EXCEPT !.http_method = Upper(dec_name)]
                      IN IF /\ decorator.node = "Call"
                            /\ decorator.args # <<>>
                            /\ decorator.args[1].node = "Constant"
                         THEN [a1 EXCEPT !.endpoint = decorator.args[1].value]
                         ELSE a1
                 ELSE acc
         IN CaScanDecorators(Tail(decorators), acc2)

NoMapping == [none |-> TRUE]

\* _detect_req_resp_mapping without its final test: a mapping for every function
detect_req_resp_mapping_unconditional(n, function) ==
    LET d == CaScanDecorators(n.decorator_list,
                              [http_method |-> NoneVal, endpoint |-> NoneVal])
        typed == SelectSeq(function.parameters, LAMBDA param :
                     /\ param.type # NoneVal
                     /\ param.type # ""
                     /\ \/ Contains(param.type, "Request")
                        \/ Contains(param.type, "Input")
                        \/ Contains(param.type, "Body"))
        request_models == [i \in 1..Len(typed) |-> typed[i].type]
        response_models ==
            IF /\ function.return_type # NoneVal
               /\ function.return_type # ""
               /\ \/ Contains(function.return_type, "Response")
                  \/ Contains(function.return_type, "Output")
            THEN <<function.return_type>> ELSE <<>>
    IN [function_name |-> function.name,
        file_path |-> function.file_path,
        request_models |-> request_models,
        response_models |-> response_models,
        http_method |-> d.http_method,
        endpoint |-> d.endpoint]

\* _detect_req_resp_mapping: the mapping, or NoMapping when nothing was found
detect_req_resp_mapping(n, function) ==
    LET d == CaScanDecorators(n.decorator_list,
                              [http_method |-> NoneVal, endpoint |-> NoneVal])
        typed == SelectSeq(function.parameters, LAMBDA param :
                     /\ param.type # NoneVal
                     /\ param.type # ""
                     /\ \/ Contains(param.type, "Request")
                        \/ Contains(param.type, "Input")
                        \/ Contains(param.type, "Body"))
        request_models == [i \in 1..Len(typed) |-> typed[i].type]
        response_models ==
            IF /\ function.return_type # NoneVal
               /\ function.return_type # ""
               /\ \/ Contains(function.return_type, "Response")
                  \/ Contains(function.return_type, "Output")
            THEN <<function.return_type>> ELSE <<>>
    IN IF request_models # <<>> \/ response_models # <<>> \/ d.http_method # NoneVal
       THEN [function_name |-> function.name,
             file_path |-> function.file_path,
             request_models |-> request_models,
             response_models |-> response_models,
             http_method |-> d.http_method,
             endpoint |-> d.endpoint]
       ELSE NoMapping

\* _extract_from_ast: one walk of the tree; st = [models, functions, mappings]
RECURSIVE ca_extract_from_ast(_, _, _)
ca_extract_from_ast(st, nodes, file_path) ==
    IF nodes = <<>> THEN st
    ELSE LET n == Head(nodes)
             st2 ==
                 IF IsClass(n)
                 THEN [st EXCEPT !.models = Append(@, ca_extract_model(n, file_path))]
                 ELSE IF IsFunction(n)
                      THEN LET function == ca_function_info(n, file_path)
                               mapping == detect_req_resp_mapping(n, function)
                           IN [models |-> st.models,
                               functions |-> Append(st.functions, function),
                               mappings |-> IF mapping = NoMapping THEN st.mappings
                                            ELSE Append(st.mappings, mapping)]
                      ELSE st
         IN ca_extract_from_ast(st2, Tail(nodes), file_path)

\* analyze_file without its try/except: the failure reaches the caller
ca_analyze_file_uncaught(st, file) ==
    IF file.status # "ok"
    THEN [models |-> st.models, functions |-> st.functions,
          mappings |-> st.mappings, raised |-> TRUE]
    ELSE LET Returned(r) ==
                 [models |-> r.models, functions |-> r.functions,
                  mappings |-> r.mappings, raised |-> FALSE]
         IN Returned(ca_extract_from_ast(st, file.nodes, file.path))

\* CodeAnalyzer.analyze_file: a failing open/read/parse is caught and printed
ca_analyze_file(st, file) ==
    IF file.status # "ok"
    THEN [models |-> st.models, functions |-> st.functions,
          mappings |-> st.mappings, raised |-> FALSE]
    ELSE LET Returned(r) ==
                 [models |-> r.models, functions |-> r.functions,
                  mappings |-> r.mappings, raised |-> FALSE]
         IN Returned(ca_extract_from_ast(st, file.nodes, file.path))

(***************************************************************************)
(* VersionTracker.export_to_json / compare_with_previous                   *)
(***************************************************************************)
NoFile == [missing |-> TRUE]

NotCompared == [not_compared |-> TRUE]

\* the "{}" returned by compare_with_previous when anything raised
EmptyResult == <<>>

\* dict.get(key, default)
Get(d, key, default) == IF key \in DOMAIN d THEN d[key] ELSE default

\* asdict(model) followed by json.dump / json.load: a JSON object with the
\* same keys; strings, booleans and None survive the round trip unchanged
to_json(model) ==
    [name |-> model.name,
     file_path |-> model.file_path,
     base_classes |-> model.base_classes,
     fields |-> [i \in 1..Len(model.fields) |->
                    [name |-> model.fields[i].name,
                     type |-> model.fields[i].type,
                     default |-> model.fields[i].default,
                     required |-> model.fields[i].required]],
     is_pydantic |-> model.is_pydantic,
     is_dataclass |-> model.is_dataclass,
     hash |-> model.hash,
     used_in_endpoints |-> model.used_in_endpoints]

\* the document export_to_json writes: models=list(self.models.values())
export_to_json(ms) ==
    [models |-> [i \in 1..Len(ms) |-> to_json(ms[i].v)],
     summary |-> [total_models |-> Len(ms)]]

\* current_models = {name: asdict(model) for name, model in self.models.items()}
current_models_of(ms) ==
    [i \in 1..Len(ms) |-> [k |-> ms[i].k, v |-> to_json(ms[i].v)]]

BreakingModelRemoved_medium(name) ==
    [type |-> "model_removed", model |-> name, severity |-> "medium"]

BreakingModelRemoved(name) ==
    [type |-> "model_removed", model |-> name, severity |-> "high"]

BreakingFieldAdded(name, field_name) ==
    [type |-> "required_field_added", model |-> name, field |-> field_name,
     severity |-> "high"]

BreakingFieldRemoved(name, field_name) ==
    [type |-> "field_removed", model |-> name, field |-> field_name,
     severity |-> "high"]

BreakingTypeChanged(name, field_name, old_type, new_type) ==
    [type |-> "field_type_changed", model |-> name, field |-> field_name,
     old_type |-> old_type, new_type |-> new_type, severity |-> "high"]

hash_differs_wrong_key(current, previous) ==
    current.hash # Get(previous, "model_hash", NoneVal)

\* "if current["hash"] != previous.get("hash")"
hash_differs(current, previous) == current.hash # Get(previous, "hash", NoneVal)

\* FieldDiff with every added field reported as breaking
FieldDiff_all_added_breaking(name, current, previous) ==
    LET current_fields == DictByKey(current.fields, "name")
        previous_fields == DictByKey(Get(previous, "fields", <<>>), "name")
        added == SelectSeq(DictKeys(current_fields),
                           LAMBDA f : ~DictHas(previous_fields, f))
        removed == SelectSeq(DictKeys(previous_fields),
                             LAMBDA f : ~DictHas(current_fields, f))
        common == SelectSeq(DictKeys(current_fields),
                            LAMBDA f : DictHas(previous_fields, f))
        modified == SelectSeq(common, LAMBDA f :
                        DictGet(current_fields, f).type # DictGet(previous_fields, f).type)
    IN [added |-> added,
        removed |-> removed,
        modified |-> modified,
        breaking |->
            [i \in 1..Len(added) |-> BreakingFieldAdded(name, added[i])]
            \o [i \in 1..Len(removed) |-> BreakingFieldRemoved(name, removed[i])]
            \o [i \in 1..Len(modified) |->
                   BreakingTypeChanged(name, modified[i],
                                       DictGet(previous_fields, modified[i]).type,
                                       DictGet(current_fields, modified[i]).type)]]

\* the three field loops of one modified model
FieldDiff(name, current, previous) ==
    LET current_fields == DictByKey(current.fields, "name")
        previous_fields == DictByKey(Get(previous, "fields", <<>>), "name")
        added == SelectSeq(DictKeys(current_fields),
                           LAMBDA f : ~DictHas(previous_fields, f))
        removed == SelectSeq(DictKeys(previous_fields),
                             LAMBDA f : ~DictHas(current_fields, f))
        common == SelectSeq(DictKeys(current_fields),
                            LAMBDA f : DictHas(previous_fields, f))
        modified == SelectSeq(common, LAMBDA f :
                        DictGet(current_fields, f).type # DictGet(previous_fields, f).type)
        required_added == SelectSeq(added, LAMBDA f : DictGet(current_fields, f).required)
    IN [added |-> added,
        removed |-> removed,
        modified |-> modified,
        breaking |->
            [i \in 1..Len(required_added) |-> BreakingFieldAdded(name, required_added[i])]
            \o [i \in 1..Len(removed) |-> BreakingFieldRemoved(name, removed[i])]
            \o [i \in 1..Len(modified) |->
                   BreakingTypeChanged(name, modified[i],
                                       DictGet(previous_fields, modified[i]).type,
                                       DictGet(current_fields, modified[i]).type)]]

\* a KeyError inside the field comparison of one modified model
FieldDiffRaises(current, previous) ==
    LET prev_list == Get(previous, "fields", <<>>)
    IN \/ \E i \in 1..Len(prev_list) : "name" \notin DOMAIN prev_list[i]
       \/ /\ \A i \in 1..Len(prev_list) : "name" \in DOMAIN prev_list[i]
          /\ LET current_fields == DictByKey(current.fields, "name")
                 previous_fields == DictByKey(prev_list, "name")
             IN \E i \in 1..Len(current_fields) :
                   /\ DictHas(previous_fields, current_fields[i].k)
                   /\ "type" \notin DOMAIN DictGet(previous_fields, current_fields[i].k)

\* fields_added / fields_removed / fields_modified: a key exists only for a
\* model that got at least one entry (setdefault(name, []).append)
PerModel(names, diffs, which) ==
    LET nonempty == SelectSeq(names, LAMBDA n : diffs[n][which] # <<>>)
    IN [i \in 1..Len(nonempty) |-> [k |-> nonempty[i], v |-> diffs[nonempty[i]][which]]]

\* "for name in current_models: if name not in previous_models"
added_models(current_models, previous_models) ==
    SelectSeq(DictKeys(current_models), LAMBDA n : ~DictHas(previous_models, n))

removed_models_from_current(current_models, previous_models) ==
    SelectSeq(DictKeys(current_models), LAMBDA n : ~DictHas(previous_models, n))

\* "for name in previous_models: if name not in current_models"
removed_models(current_models, previous_models) ==
    SelectSeq(DictKeys(previous_models), LAMBDA n : ~DictHas(current_models, n))

modified_models_by_fields(current_models, previous_models) ==
    SelectSeq(DictKeys(current_models), LAMBDA n :
        /\ DictHas(previous_models, n)
        /\ DictGet(current_models, n).fields # Get(DictGet(previous_models, n), "fields", <<>>))

\* "for name in current_models: if name in previous_models: if hash differs"
modified_models(current_models, previous_models) ==
    SelectSeq(DictKeys(current_models), LAMBDA n :
        /\ DictHas(previous_models, n)
        /\ hash_differs(DictGet(current_models, n), DictGet(previous_models, n)))

compare_with_previous(previous_file, ms) ==
    IF previous_file = NoFile THEN EmptyResult
    ELSE
    LET prev_list == Get(previous_file, "models", <<>>)
    IN IF \E i \in 1..Len(prev_list) : "name" \notin DOMAIN prev_list[i]
       THEN EmptyResult
       ELSE
       LET previous_models == DictByKey(prev_list, "name")
           current_models == current_models_of(ms)
           added == added_models(current_models, previous_models)
           removed == removed_models(current_models, previous_models)
           modified == modified_models(current_models, previous_models)
       IN IF \E n \in Range(modified) :
                 FieldDiffRaises(DictGet(current_models, n), DictGet(previous_models, n))
          THEN EmptyResult
          ELSE
          LET diffs == [n \in Range(modified) |->
                           FieldDiff(n, DictGet(current_models, n),
                                     DictGet(previous_models, n))]
          IN [models_added |-> added,
              models_removed |-> removed,
              models_modified |-> modified,
              fields_added |-> PerModel(modified, diffs, "added"),
              fields_removed |-> PerModel(modified, diffs, "removed"),
              fields_modified |-> PerModel(modified, diffs, "modified"),
              breaking_changes |->
                  [i \in 1..Len(removed) |-> BreakingModelRemoved(removed[i])]
                  \o Concat([i \in 1..Len(modified) |-> diffs[modified[i]].breaking])]

(***************************************************************************)
(* drift_detector.py                                                       *)
(***************************************************************************)
ImportFails == [import_error |-> TRUE]

\* get_code_methods: the registry keyed by method_name; an import failure
\* is caught, a warning printed and {} returned
RECURSIVE RegistryToDict(_)
RegistryToDict(defs) ==
    IF defs = <<>> THEN EmptyDict
    ELSE LET method_def == defs[Len(defs)]
         IN DictSet(RegistryToDict(SubSeq(defs, 1, Len(defs) - 1)),
                    method_def.method_name,
                    [service_class |-> method_def.service_class,
                     request_model |-> method_def.request_model_class,
                     response_model |-> method_def.response_model_class,
                     classification |-> method_def.classification,
                     version |-> method_def.version])

get_code_methods(reg) ==
    IF reg = ImportFails THEN EmptyDict ELSE RegistryToDict(reg.MANAGED_METHODS)

\* Python truthiness of an optional string
Truthy(x) == x # NoneVal /\ x # ""

ClassificationKeys == <<"domain", "subdomain", "capability", "complexity", "maturity">>

\* detect_drift. The code iterates over sets of names, whose order Python
\* leaves open; the lists are given here in the order of the dict they are
\* drawn from, and no property below depends on that order.
\* detect_drift without the tier test on deleted methods (the two
\* membership lists only)
detect_drift_all_tiers(inv, code) ==
    LET new == SelectSeq(DictKeys(code), LAMBDA m : ~DictHas(inv, m))
        deleted == SelectSeq(DictKeys(inv), LAMBDA m : ~DictHas(code, m))
    IN << [k |-> "new_methods",
           v |-> [i \in 1..Len(new) |->
                     [method |-> new[i],
                      request_model |-> DictGet(code, new[i]).request_model,
                      response_model |-> DictGet(code, new[i]).response_model,
                      classification |-> DictGet(code, new[i]).classification]]],
          [k |-> "deleted_methods",
           v |-> [i \in 1..Len(deleted) |-> [method |-> deleted[i], was_internal |-> TRUE]]],
          [k |-> "changed_signatures", v |-> <<>>],
          [k |-> "changed_classification", v |-> <<>>],
          [k |-> "version_changes", v |-> <<>>] >>

detect_drift(inv, code) ==
    LET in_code(m) == DictHas(code, m)
        in_inv(m) == DictHas(inv, m)
        new == SelectSeq(DictKeys(code), LAMBDA m : ~in_inv(m))
        deleted == SelectSeq(DictKeys(inv), LAMBDA m :
                       /\ Get(Get(DictGet(inv, m), "classification", <<>>),
                              "integration_tier", NoneVal) = "internal"
                       /\ ~in_code(m))
        both == SelectSeq(DictKeys(inv), in_code)
        inv_req(m) == Get(Get(DictGet(inv, m), "models", <<>>), "request", NoneVal)
        inv_res(m) == Get(Get(DictGet(inv, m), "models", <<>>), "response", NoneVal)
        sig == SelectSeq(both, LAMBDA m :
                   \/ inv_req(m) # DictGet(code, m).request_model
                   \/ inv_res(m) # DictGet(code, m).response_model)
        inv_class(m) == Get(DictGet(inv, m), "classification", <<>>)
        code_class(m) == Get(DictGet(code, m), "classification", <<>>)
        class_changes(m) ==
            LET keys == SelectSeq(ClassificationKeys, LAMBDA key :
                            Get(inv_class(m), key, NoneVal) # Get(code_class(m), key, NoneVal))
            IN [i \in 1..Len(keys) |->
                   [field |-> keys[i],
                    inventory |-> Get(inv_class(m), keys[i], NoneVal),
                    code |-> Get(code_class(m), keys[i], NoneVal)]]
        cls == SelectSeq(both, LAMBDA m : class_changes(m) # <<>>)
        inv_ver(m) == Get(DictGet(inv, m), "version", NoneVal)
        code_ver(m) == Get(DictGet(code, m), "version", NoneVal)
        ver == SelectSeq(both, LAMBDA m :
                   Truthy(inv_ver(m)) /\ Truthy(code_ver(m)) /\ inv_ver(m) # code_ver(m))
    IN << [k |-> "new_methods",
           v |-> [i \in 1..Len(new) |->
                     [method |-> new[i],
                      request_model |-> DictGet(code, new[i]).request_model,
                      response_model |-> DictGet(code, new[i]).response_model,
                      classification |-> DictGet(code, new[i]).classification]]],
          [k |-> "deleted_methods",
           v |-> [i \in 1..Len(deleted) |-> [method |-> deleted[i], was_internal |-> TRUE]]],
          [k |-> "changed_signatures",
           v |-> [i \in 1..Len(sig) |->
                     [method |-> sig[i],
                      inventory |-> [request |-> inv_req(sig[i]), response |-> inv_res(sig[i])],
                      code |-> [request |-> DictGet(code, sig[i]).request_model,
                                response |-> DictGet(code, sig[i]).response_model]]]],
          [k |-> "changed_classification",
           v |-> [i \in 1..Len(cls) |-> [method |-> cls[i], changes |-> class_changes(cls[i])]]],
          [k |-> "version_changes",
           v |-> [i \in 1..Len(ver) |->
                     [method |-> ver[i], inventory |-> inv_ver(ver[i]),
                      code |-> code_ver(ver[i])]]] >>

weights_get_swapped(category) ==
    CASE category = "new_methods" -> 1
      [] category = "deleted_methods" -> 2
      [] category = "changed_signatures" -> 3
      [] category = "changed_classification" -> 1
      [] category = "version_changes" -> 1
      [] OTHER -> 1

weights_get_default_zero(category) ==
    CASE category = "new_methods" -> 1
      [] category = "deleted_methods" -> 3
      [] category = "changed_signatures" -> 2
      [] category = "changed_classification" -> 1
      [] category = "version_changes" -> 1
      [] OTHER -> 0

\* weights.get(category, 1)
weights_get(category) ==
    CASE category = "new_methods" -> 1
      [] category = "deleted_methods" -> 3
      [] category = "changed_signatures" -> 2
      [] category = "changed_classification" -> 1
      [] category = "version_changes" -> 1
      [] OTHER -> 1

\* "for category, items in drift.items(): score += len(items) * weight"
RECURSIVE SumScore(_)
SumScore(d) ==
    IF d = <<>> THEN 0
    ELSE Len(Head(d).v) * weights_get(Head(d).k) + SumScore(Tail(d))

\* sum(len(items) for items in drift.values())
RECURSIVE SumLen(_)
SumLen(d) == IF d = <<>> THEN 0 ELSE Len(Head(d).v) + SumLen(Tail(d))

severity_of_strict(s) ==
    IF s = 0 THEN "none"
    ELSE IF s < 3 THEN "low"
         ELSE IF s < 10 THEN "medium" ELSE "high"

\* the if / elif chain on score
severity_of(s) ==
    IF s = 0 THEN "none"
    ELSE IF s <= 3 THEN "low"
         ELSE IF s <= 10 THEN "medium" ELSE "high"

calculate_drift_score(d) ==
    [total_changes |-> SumLen(d),
     drift_score |-> SumScore(d),
     severity |-> severity_of(SumScore(d)),
     requires_update |-> (SumLen(d) > 0)]

exit_status_any_drift(ci, sc) == IF sc.requires_update THEN 1 ELSE 0

\* a gate that lets low and medium drift pass
exit_status_high_only(ci, sc) == IF ci /\ sc.severity = "high" THEN 1 ELSE 0

\* "if args.ci_mode and score["requires_update"]: sys.exit(1) else: sys.exit(0)"
exit_status(ci, sc) == IF ci /\ sc.requires_update THEN 1 ELSE 0

(***************************************************************************)
(* Source declarations the analysed tree may contain                       *)
(***************************************************************************)
FieldStmts ==
    { AnnAssign("a", "int", NoneVal),      \* a: int
      AnnAssign("a", "str", NoneVal),      \* a: str
      AnnAssign("b", "int", "0") }         \* b: int = 0

\* class bodies of up to MaxFields statements, none written twice verbatim
\* (the same field name may still be declared twice, with another type)
Bodies ==
    UNION { { body \in [1..k -> FieldStmts] :
                \A i, j \in 1..k : i # j => body[i] # body[j] } : k \in 0..MaxFields }

\* class User(BaseModel): <body>
UserDecls == { ClassDef("User", <<Name("BaseModel")>>, <<>>, body) : body \in Bodies }

FooDecls ==
    { \* class Foo(BaseModel, Mixin): a: int
      ClassDef("Foo", <<Name("BaseModel"), Name("Mixin")>>, <<>>,
               <<AnnAssign("a", "int", NoneVal)>>),
      \* class Foo(Mixin, BaseModel): a: int
      ClassDef("Foo", <<Name("Mixin"), Name("BaseModel")>>, <<>>,
               <<AnnAssign("a", "int", NoneVal)>>),
      \* @dataclass class Foo: a: int; x = 1
      ClassDef("Foo", <<>>, <<Name("dataclass")>>,
               <<AnnAssign("a", "int", NoneVal), Assign("x", "1")>>),
      \* class Foo(object): a: int      (not a data record)
      ClassDef("Foo", <<Name("object")>>, <<>>,
               <<AnnAssign("a", "int", NoneVal)>>),
      \* @dataclass class Foo: a: int = 5
      ClassDef("Foo", <<>>, <<Name("dataclass")>>,
               <<AnnAssign("a", "int", "5")>>) }

ClassDecls == UserDecls \cup FooDecls

(***************************************************************************)
(* A version_tracker run: main() of version_tracker.py                     *)
(***************************************************************************)
WalkIdle ==
    /\ tool = "none"
    /\ python_files = <<>>
    /\ pos = 1
    /\ endpoints = <<>>
    /\ files_analyzed = <<>>
    /\ ca_models = <<>>
    /\ ca_functions = <<>>
    /\ ca_mappings = <<>>
    /\ raised = FALSE

DriftIdle ==
    /\ dpc = "idle"
    /\ collider_exists = TRUE
    /\ inventory_file = NoFile
    /\ registry = [MANAGED_METHODS |-> <<>>]
    /\ inventory = EmptyDict
    /\ code_methods = EmptyDict
    /\ ci_mode = FALSE
    /\ drift = <<>>
    /\ score = <<>>
    /\ exit_code = NoExit

TrackerIdle ==
    /\ pc = "idle"
    /\ models = EmptyDict
    /\ disk = NoFile
    /\ changes = NotCompared

DepthIdle ==
    /\ call_stack = <<>>
    /\ returned = <<>>

Init ==
    /\ pc = "walk"
    /\ models = EmptyDict
    /\ disk = NoFile
    /\ changes = NotCompared
    /\ WalkIdle
    /\ DriftIdle
    /\ DepthIdle

\* one ClassDef visited by _extract_models during analyze_directory
ExtractModels(cls) ==
    /\ pc = "walk"
    /\ models' = extract_model(models, cls, "models.py")
    /\ UNCHANGED <<pc, disk, changes>>

\* a run that compares after it has written its own export
ComparePrevious_after_export ==
    /\ pc = "exported"
    /\ changes = NotCompared
    /\ changes' = compare_with_previous(disk, models)
    /\ UNCHANGED <<pc, models, disk>>

\* --compare FILE: changes = tracker.compare_with_previous(args.compare)
ComparePrevious ==
    /\ pc = "walk"
    /\ changes' = compare_with_previous(disk, models)
    /\ pc' = "compared"
    /\ UNCHANGED <<models, disk>>

\* tracker.export_to_json(json_file): the snapshot file is overwritten
ExportToJson ==
    /\ pc \in {"walk", "compared"}
    /\ disk' = export_to_json(models)
    /\ pc' = "exported"
    /\ UNCHANGED <<models, changes>>

\* the process ends; the tool is run again later on the edited tree
NewRun ==
    /\ pc = "exported"
    /\ pc' = "walk"
    /\ models' = EmptyDict
    /\ changes' = NotCompared
    /\ UNCHANGED disk

Next ==
    \/ (\E cls \in ClassDecls : ExtractModels(cls)) /\ UNCHANGED <<walkVars, driftVars, depthVars>>
    \/ ComparePrevious /\ UNCHANGED <<walkVars, driftVars, depthVars>>
    \/ ExportToJson /\ UNCHANGED <<walkVars, driftVars, depthVars>>
    \/ NewRun /\ UNCHANGED <<walkVars, driftVars, depthVars>>

Spec == Init /\ [][Next]_vars

(***************************************************************************)
(* Properties of compare_with_previous and of the fingerprint              *)
(***************************************************************************)
\* the previous snapshot was loaded and compared with the current one
Compared == pc = "compared" /\ disk # NoFile

PrevNames == { disk.models[i].name : i \in 1..Len(disk.models) }

CurNames == Range(DictKeys(models))

\* the record of the previous snapshot with this name (names are unique in
\* an exported snapshot)
PrevRecord(n) == disk.models[CHOOSE i \in 1..Len(disk.models) : disk.models[i].name = n]

CurRecord(n) == DictGet(models, n)

FieldNamesOf(r) == { r.fields[i].name : i \in 1..Len(r.fields) }

\* the declaration that counts for a field name: the last one in the body
FieldOf(r, f) ==
    r.fields[CHOOSE i \in 1..Len(r.fields) :
                /\ r.fields[i].name = f
                /\ \A j \in (i + 1)..Len(r.fields) : r.fields[j].name # f]

BreakingEntries(type, n, f) ==
    { i \in 1..Len(changes.breaking_changes) :
        /\ changes.breaking_changes[i].type = type
        /\ changes.breaking_changes[i].model = n
        /\ "field" \in DOMAIN changes.breaking_changes[i]
        /\ changes.breaking_changes[i].field = f }

\* C1: for every record reported in models_modified, every field that was
\* in the previous snapshot and is absent now has a field_removed entry in
\* breaking_changes, every field in both with a different type text has a
\* field_type_changed entry, and an added field that is not required has no
\* entry in breaking_changes at all.
C1_BreakingChangeCompleteness ==
    Compared =>
        /\ changes # EmptyResult
        /\ \A n \in Range(changes.models_modified) :
              LET cur == CurRecord(n)
                  prev == PrevRecord(n)
              IN /\ \A f \in FieldNamesOf(prev) \ FieldNamesOf(cur) :
                        BreakingEntries("field_removed", n, f) # {}
                 /\ \A f \in FieldNamesOf(prev) \cap FieldNamesOf(cur) :
                        FieldOf(cur, f).type # FieldOf(prev, f).type
                            => BreakingEntries("field_type_changed", n, f) # {}
                 /\ \A f \in FieldNamesOf(cur) \ FieldNamesOf(prev) :
                        ~FieldOf(cur, f).required
                            => \A i \in 1..Len(changes.breaking_changes) :
                                  ~ /\ changes.breaking_changes[i].model = n
                                    /\ "field" \in DOMAIN changes.breaking_changes[i]
                                    /\ changes.breaking_changes[i].field = f

\* a modified record with a changed field type and an added optional field
C1_Witness ==
    /\ Compared
    /\ changes # EmptyResult
    /\ \E n \in Range(changes.models_modified) :
          /\ \E f \in FieldNamesOf(PrevRecord(n)) \cap FieldNamesOf(CurRecord(n)) :
                FieldOf(CurRecord(n), f).type # FieldOf(PrevRecord(n), f).type
          /\ \E f \in FieldNamesOf(CurRecord(n)) \ FieldNamesOf(PrevRecord(n)) :
                ~FieldOf(CurRecord(n), f).required

EmptyChangeSet ==
    [models_added |-> <<>>, models_removed |-> <<>>, models_modified |-> <<>>,
     fields_added |-> <<>>, fields_removed |-> <<>>, fields_modified |-> <<>>,
     breaking_changes |-> <<>>]

\* C2: comparing the tracker's snapshot with its own JSON export gives the
\* empty ChangeSet: all seven collections have no entries.
C2_DiffIdempotent ==
    (pc = "compared" /\ disk = export_to_json(models)) => changes = EmptyChangeSet

\* a snapshot of two records compared with its own export
C2_Witness ==
    /\ pc = "compared"
    /\ disk = export_to_json(models)
    /\ Len(models) = 2
    /\ \A i \in 1..Len(models) : models[i].v.fields # <<>>

Count(s, x) == Cardinality({ i \in 1..Len(s) : s[i] = x })

IsPermutation(s, t) ==
    /\ Len(s) = Len(t)
    /\ \A x \in Range(s) \cup Range(t) : Count(s, x) = Count(t, x)

FieldPairs(r) == [i \in 1..Len(r.fields) |-> <<r.fields[i].name, r.fields[i].type>>]

SameShape(r1, r2) ==
    /\ r1.name = r2.name
    /\ IsPermutation(r1.base_classes, r2.base_classes)
    /\ IsPermutation(FieldPairs(r1), FieldPairs(r2))

\* C3: two records with the same name, the same base names and the same
\* (field name, type text) pairs have the same fingerprint, whatever the
\* declaration order of fields and bases (here: a record of the current
\* snapshot and a record of the stored previous one).
C3_FingerprintOrderIndependent ==
    disk # NoFile =>
        \A i \in 1..Len(models) : \A j \in 1..Len(disk.models) :
            SameShape(models[i].v, disk.models[j]) => models[i].v.hash = disk.models[j].hash

\* two records of the same shape whose fields are declared in another order
C3_Witness ==
    /\ disk # NoFile
    /\ \E i \in 1..Len(models) : \E j \in 1..Len(disk.models) :
          /\ SameShape(models[i].v, disk.models[j])
          /\ Len(models[i].v.fields) = 2
          /\ FieldPairs(models[i].v) # FieldPairs(disk.models[j])

\* the tracker whose export is the previous snapshot
PrevTracker == [i \in 1..Len(disk.models) |-> [k |-> disk.models[i].name, v |-> disk.models[i]]]

\* the diff in the other direction: previous = current snapshot, current = previous one
ReverseChanges == compare_with_previous(export_to_json(models), PrevTracker)

\* C7: a record of the previous snapshot A that is absent from the current
\* snapshot B is in models_removed and not in models_added of the diff
\* A -> B, and in models_added and not in models_removed of the diff B -> A.
C7_AddRemoveSymmetry ==
    Compared =>
        /\ changes # EmptyResult
        /\ ReverseChanges # EmptyResult
        /\ \A R \in PrevNames \ CurNames :
              /\ R \in Range(changes.models_removed)
              /\ R \notin Range(changes.models_added)
              /\ R \in Range(ReverseChanges.models_added)
              /\ R \notin Range(ReverseChanges.models_removed)

\* a record only in the previous snapshot, next to one present in both
C7_Witness ==
    /\ Compared
    /\ PrevNames \ CurNames # {}
    /\ PrevNames \cap CurNames # {}

\* C9: every record name of the previous snapshot that is absent now is
\* exactly once in models_removed and has exactly one breaking_changes
\* entry, of type model_removed and severity high; a record in models_added
\* has no breaking_changes entry.
C9_RemovalsAlwaysBreaking ==
    Compared =>
        /\ changes # EmptyResult
        /\ \A R \in PrevNames \ CurNames :
              /\ Count(changes.models_removed, R) = 1
              /\ Cardinality({ i \in 1..Len(changes.breaking_changes) :
                                  changes.breaking_changes[i].model = R }) = 1
              /\ \A i \in 1..Len(changes.breaking_changes) :
                    changes.breaking_changes[i].model = R
                        => /\ changes.breaking_changes[i].type = "model_removed"
                           /\ changes.breaking_changes[i].severity = "high"
        /\ \A R \in Range(changes.models_added) :
              \A i \in 1..Len(changes.breaking_changes) :
                  changes.breaking_changes[i].model # R

\* one record removed and another one added
C9_Witness ==
    /\ Compared
    /\ changes # EmptyResult
    /\ PrevNames \ CurNames # {}
    /\ changes.models_added # <<>>

\* C10: a record name present in both snapshots is in models_modified iff
\* its two stored fingerprints differ, and is never in models_added or
\* models_removed, however different the two shapes are.
C10_IdentityByName ==
    Compared =>
        /\ changes # EmptyResult
        /\ \A n \in PrevNames \cap CurNames :
              /\ n \in Range(changes.models_modified)
                    <=> CurRecord(n).hash # PrevRecord(n).hash
              /\ n \notin Range(changes.models_added)
              /\ n \notin Range(changes.models_removed)

\* a name in both snapshots whose two shapes share no base and no field
C10_Witness ==
    /\ Compared
    /\ \E n \in PrevNames \cap CurNames :
          /\ Range(CurRecord(n).base_classes) \cap Range(PrevRecord(n).base_classes) = {}
          /\ n \in Range(changes.models_modified)
    /\ \E n \in PrevNames \cap CurNames :
          /\ FieldNamesOf(CurRecord(n)) # {}
          /\ FieldNamesOf(PrevRecord(n)) # {}
          /\ FieldNamesOf(CurRecord(n)) \cap FieldNamesOf(PrevRecord(n)) = {}

\* C11: for every record in models_modified, the fields declared now and
\* absent from the previous snapshot are exactly the entries of
\* fields_added for that record, and such a field has one
\* required_field_added entry of severity high when it has no default
\* (required = true) and none when it has one; a field present before gets
\* no required_field_added entry.
C11_AddedFieldClassification ==
    Compared =>
        /\ changes # EmptyResult
        /\ \A n \in Range(changes.models_modified) :
              LET cur == CurRecord(n)
                  prev == PrevRecord(n)
                  addedNow == FieldNamesOf(cur) \ FieldNamesOf(prev)
              IN /\ IF addedNow = {}
                    THEN ~DictHas(changes.fields_added, n)
                    ELSE /\ DictHas(changes.fields_added, n)
                         /\ Range(DictGet(changes.fields_added, n)) = addedNow
                 /\ \A f \in addedNow :
                       /\ FieldOf(cur, f).required <=> FieldOf(cur, f).default = NoneVal
                       /\ Cardinality(BreakingEntries("required_field_added", n, f))
                             = IF FieldOf(cur, f).default = NoneVal THEN 1 ELSE 0
                       /\ \A i \in BreakingEntries("required_field_added", n, f) :
                             changes.breaking_changes[i].severity = "high"
                 /\ \A f \in FieldNamesOf(cur) \cap FieldNamesOf(prev) :
                       BreakingEntries("required_field_added", n, f) = {}

\* a modified record that gained a field without default and one with a default
C11_Witness ==
    /\ Compared
    /\ changes # EmptyResult
    /\ \E n \in Range(changes.models_modified) :
          LET addedNow == FieldNamesOf(CurRecord(n)) \ FieldNamesOf(PrevRecord(n))
          IN /\ \E f \in addedNow : FieldOf(CurRecord(n), f).default = NoneVal
             /\ \E f \in addedNow : FieldOf(CurRecord(n), f).default # NoneVal

UniqueFieldNames(r) == Cardinality(FieldNamesOf(r)) = Len(r.fields)

\* record n has an entry in one of the three per-field collections
HasFieldEntry(n) ==
    \/ DictHas(changes.fields_added, n) /\ DictGet(changes.fields_added, n) # <<>>
    \/ DictHas(changes.fields_removed, n) /\ DictGet(changes.fields_removed, n) # <<>>
    \/ DictHas(changes.fields_modified, n) /\ DictGet(changes.fields_modified, n) # <<>>

\* the two versions of a record differ in the default of a field and in
\* nothing the fingerprint covers
OnlyDefaultsChanged(cur, prev) ==
    /\ SameShape(cur, prev)
    /\ \E f \in FieldNamesOf(cur) : FieldOf(cur, f).default # FieldOf(prev, f).default

\* C26: when the previous snapshot is an export of the tracker, every
\* record in models_modified whose field names are unique in both versions
\* has another set of base names than before or an entry in fields_added,
\* fields_removed or fields_modified; a record of which only the default
\* (and so the required flag) of a field changed is not in models_modified.
C26_ModifiedShowsWhy ==
    Compared =>
        /\ changes # EmptyResult
        /\ \A n \in Range(changes.models_modified) :
              (UniqueFieldNames(CurRecord(n)) /\ UniqueFieldNames(PrevRecord(n))) =>
                  \/ Range(CurRecord(n).base_classes) # Range(PrevRecord(n).base_classes)
                  \/ HasFieldEntry(n)
        /\ \A n \in PrevNames \cap CurNames :
              OnlyDefaultsChanged(CurRecord(n), PrevRecord(n)) =>
                  n \notin Range(changes.models_modified)

\* Foo changed only the default of a field and is not reported, while User
\* is reported with a field entry
C26_Witness ==
    /\ Compared
    /\ changes # EmptyResult
    /\ "Foo" \in PrevNames \cap CurNames
    /\ OnlyDefaultsChanged(CurRecord("Foo"), PrevRecord("Foo"))
    /\ "Foo" \notin Range(changes.models_modified)
    /\ "User" \in Range(changes.models_modified)
    /\ UniqueFieldNames(CurRecord("User"))
    /\ UniqueFieldNames(PrevRecord("User"))
    /\ HasFieldEntry("User")

\* Foo is reported as modified for its bases alone
C26_WitnessBases ==
    /\ Compared
    /\ changes # EmptyResult
    /\ "Foo" \in Range(changes.models_modified)
    /\ ~HasFieldEntry("Foo")

\* C22: in a version_tracker run the previous snapshot is compared before
\* the run writes its export to the same path: a comparison step happens
\* while the run has not exported and leaves the file alone; the file
\* changes only in the export step, which writes the export of the models
\* as analysed and leaves them alone; after the export the run neither
\* analyses nor compares any more.
C22_ReadBeforeWrite ==
    [][/\ (changes' # changes /\ changes' # NotCompared) =>
              (pc = "walk" /\ disk' = disk /\ changes' = compare_with_previous(disk, models))
       /\ disk' # disk =>
              (/\ pc \in {"walk", "compared"}
               /\ pc' = "exported"
               /\ models' = models
               /\ disk' = export_to_json(models))
       /\ pc = "exported" =>
              (disk' = disk /\ (changes' = changes \/ (pc' = "walk" /\ changes' = NotCompared)))
      ]_vars

\* a run compared with the previous file, found User modified, and then
\* overwrote that file with its own export
C22_Witness ==
    /\ pc = "exported"
    /\ changes \notin {NotCompared, EmptyResult}
    /\ "User" \in Range(changes.models_modified)
    /\ disk = export_to_json(models)

(***************************************************************************)
(* The directory walk of either analyzer (analyze_directory)               *)
(***************************************************************************)
Arg(name, annotation) == [arg |-> name, annotation |-> annotation]

Keyword(arg, value) == [arg |-> arg, value |-> value]

List(elts) == [node |-> "List", elts |-> elts]

\* what a python file of the analysed tree may hold: its statements, as
\* nodes in the order ast.walk yields them, and whether it can be read and
\* parsed
FileContents ==
    { \* class User(BaseModel): a: int       class Helper(object): a: int
      [status |-> "ok",
       nodes |-> ast_walk(<<ClassDef("User", <<Name("BaseModel")>>, <<>>,
                            <<AnnAssign("a", "int", NoneVal)>>),
                   ClassDef("Helper", <<Name("object")>>, <<>>,
                            <<AnnAssign("a", "int", NoneVal)>>)>>)],
      \* @get("/users", tags=["users"])  def list_users(req: UserRequest) -> List[User]
      \* def helper(x: int)
      [status |-> "ok",
       nodes |-> ast_walk(<<FunctionDef("list_users",
                               <<Call(Name("get"), <<Constant("/users")>>,
                                      <<Keyword("tags", List(<<Constant("users")>>))>>)>>,
                               <<Arg("req", "UserRequest")>>, "List[User]"),
                   FunctionDef("helper", <<>>, <<Arg("x", "int")>>, NoneVal)>>)],
      \* @dataclass class Foo: b: int = 0     @post def create(foo: Foo) -> FooResponse
      [status |-> "ok",
       nodes |-> ast_walk(<<ClassDef("Foo", <<>>, <<Name("dataclass")>>,
                            <<AnnAssign("b", "int", "0")>>),
                   FunctionDef("create", <<Name("post")>>,
                               <<Arg("foo", "Foo")>>, "FooResponse")>>)],
      \* a file with a syntax error (it would declare User and a route)
      [status |-> "syntax_error",
       nodes |-> ast_walk(<<ClassDef("User", <<Name("BaseModel")>>, <<>>,
                            <<AnnAssign("a", "str", NoneVal)>>),
                   FunctionDef("broken", <<Call(Name("delete"), <<>>, <<>>)>>,
                               <<>>, "User")>>)],
      \* a file that is not valid UTF-8 (it would declare Foo)
      [status |-> "read_error",
       nodes |-> ast_walk(<<ClassDef("Foo", <<Name("BaseModel")>>, <<>>,
                            <<AnnAssign("a", "int", NoneVal)>>)>>)],
      \* class User(BaseModel): a: str      class User(BaseModel): b: int = 0
      [status |-> "ok",
       nodes |-> ast_walk(<<ClassDef("User", <<Name("BaseModel")>>, <<>>,
                            <<AnnAssign("a", "str", NoneVal)>>),
                   ClassDef("User", <<Name("BaseModel")>>, <<>>,
                            <<AnnAssign("b", "int", "0")>>)>>)],
      \* class User(object): a: int
      [status |-> "ok",
       nodes |-> ast_walk(<<ClassDef("User", <<Name("object")>>, <<>>,
                            <<AnnAssign("a", "int", NoneVal)>>)>>)] }

\* the relative path of the i-th file the traversal yields
PathOf(i) == "f" \o ToString(i) \o ".py"

\* the lists python_files that rglob + the exclusion filter can produce
FileLists ==
    UNION { { [i \in 1..n |-> [path |-> PathOf(i),
                               status |-> cs[i].status,
                               nodes |-> cs[i].nodes]] :
                cs \in [1..n -> FileContents] } : n \in 0..MaxFiles }

InitWalk ==
    /\ tool \in {"version_tracker", "code_analyzer"}
    /\ python_files \in FileLists
    /\ pos = 1
    /\ models = EmptyDict
    /\ endpoints = <<>>
    /\ files_analyzed = <<>>
    /\ ca_models = <<>>
    /\ ca_functions = <<>>
    /\ ca_mappings = <<>>
    /\ raised = FALSE
    /\ pc = "walk"
    /\ disk = NoFile
    /\ changes = NotCompared
    /\ DriftIdle
    /\ DepthIdle

\* one iteration of "for py_file in python_files" of VersionTracker
VtAnalyzeNext ==
    /\ tool = "version_tracker"
    /\ ~raised
    /\ pos <= Len(python_files)
    /\ LET Iteration(r) ==
               /\ models' = r.models
               /\ endpoints' = r.endpoints
               /\ raised' = r.raised
               /\ IF r.raised
                  THEN UNCHANGED <<pos, files_analyzed>>
                  ELSE /\ pos' = pos + 1
                       /\ files_analyzed' = Append(files_analyzed, python_files[pos].path)
       IN Iteration(vt_analyze_file([models |-> models, endpoints |-> endpoints],
                                    python_files[pos]))
    /\ UNCHANGED <<tool, python_files, ca_models, ca_functions, ca_mappings,
                   pc, disk, changes>>

\* one iteration of "for py_file in python_files" of CodeAnalyzer
CaAnalyzeNext ==
    /\ tool = "code_analyzer"
    /\ ~raised
    /\ pos <= Len(python_files)
    /\ LET Iteration(r) ==
               /\ ca_models' = r.models
               /\ ca_functions' = r.functions
               /\ ca_mappings' = r.mappings
               /\ raised' = r.raised
               /\ pos' = IF r.raised THEN pos ELSE pos + 1
       IN Iteration(ca_analyze_file([models |-> ca_models, functions |-> ca_functions,
                                     mappings |-> ca_mappings], python_files[pos]))
    /\ UNCHANGED <<tool, python_files, models, endpoints, files_analyzed,
                   pc, disk, changes>>

NextWalk ==
    \/ VtAnalyzeNext /\ UNCHANGED <<driftVars, depthVars>>
    \/ CaAnalyzeNext /\ UNCHANGED <<driftVars, depthVars>>

SpecWalk == InitWalk /\ [][NextWalk]_vars

(***************************************************************************)
(* Properties of the walk                                                  *)
(***************************************************************************)
FileAt(path) == python_files[CHOOSE i \in 1..Len(python_files) : python_files[i].path = path]

\* everything an analyzer holds comes from a file that was read and parsed
OnlyFromParsedFiles ==
    /\ \A i \in 1..Len(models) : FileAt(models[i].v.file_path).status = "ok"
    /\ \A i \in 1..Len(endpoints) : FileAt(endpoints[i].file_path).status = "ok"
    /\ \A i \in 1..Len(ca_models) : FileAt(ca_models[i].file_path).status = "ok"
    /\ \A i \in 1..Len(ca_functions) : FileAt(ca_functions[i].file_path).status = "ok"
    /\ \A i \in 1..Len(ca_mappings) : FileAt(ca_mappings[i].file_path).status = "ok"

HasVerbDecorator(n) ==
    \E k \in 1..Len(n.decorator_list) : get_decorator_name(n.decorator_list[k]) \in HttpVerbs

IsRecordClass(n) ==
    \/ \E k \in 1..Len(n.bases) : n.bases[k].node = "Name" /\ n.bases[k].id = "BaseModel"
    \/ \E k \in 1..Len(n.decorator_list) :
          n.decorator_list[k].node = "Name" /\ n.decorator_list[k].id = "dataclass"

\* the declarations of the parsed file f are held by the analyzer that walked it
DeclarationsPresent(f) ==
    \A k \in 1..Len(f.nodes) :
        LET n == f.nodes[k]
        IN IF tool = "version_tracker"
           THEN /\ (IsClass(n) /\ IsRecordClass(n)) => DictHas(models, n.name)
                /\ (IsFunction(n) /\ HasVerbDecorator(n)) =>
                       \E e \in 1..Len(endpoints) :
                           /\ endpoints[e].function_name = n.name
                           /\ endpoints[e].file_path = f.path
           ELSE /\ IsClass(n) =>
                       \E m \in 1..Len(ca_models) :
                           /\ ca_models[m].name = n.name
                           /\ ca_models[m].file_path = f.path
                /\ IsFunction(n) =>
                       \E m \in 1..Len(ca_functions) :
                           /\ ca_functions[m].name = n.name
                           /\ ca_functions[m].file_path = f.path

\* C8: a file whose reading or parsing fails adds no record, callable or
\* endpoint, nothing is raised to the caller of analyze_directory, and every
\* file after it is still analysed: once the loop has passed a file that
\* parses, its declarations are held by the analyzer (the loop stops only
\* when raised is set or the list is exhausted).
C8_ResilienceBySkipping ==
    /\ ~raised
    /\ OnlyFromParsedFiles
    /\ \A i \in 1..(pos - 1) :
          python_files[i].status = "ok" => DeclarationsPresent(python_files[i])

\* the walk is over; a file failed and a later file, which parses, has
\* declarations
C8_Witness ==
    /\ pos = Len(python_files) + 1
    /\ \E i \in 1..Len(python_files) : \E j \in (i + 1)..Len(python_files) :
          /\ python_files[i].status # "ok"
          /\ python_files[j].status = "ok"
          /\ python_files[j].nodes # <<>>
    /\ Len(models) + Len(ca_models) > 0

\* the paths of the files the loop has passed whose read and parse
\* succeeded, in traversal order
PathsParsed ==
    LET passed == SelectSeq([i \in 1..(pos - 1) |-> python_files[i]],
                            LAMBDA f : f.status = "ok")
    IN [i \in 1..Len(passed) |-> passed[i].path]

\* C29: files_analyzed of the VersionTracker lists exactly the files whose
\* read and parse succeeded, in traversal order; a file that failed is not
\* in it (and so not in the summary's count, the length of the list).
C29_SkippedNotReported ==
    tool = "version_tracker" => files_analyzed = PathsParsed

\* the walk is over, a file failed to parse and is listed in files_analyzed
C29_Witness ==
    /\ tool = "version_tracker"
    /\ pos = Len(python_files) + 1
    /\ \E i \in 1..Len(python_files) :
          /\ python_files[i].status = "syntax_error"
          /\ python_files[i].path \in Range(files_analyzed)
    /\ Len(files_analyzed) = Len(python_files)

\* a base-type name of the class contains "BaseModel"
HasModelBase(n) ==
    \E k \in 1..Len(n.bases) :
        /\ n.bases[k].node \in {"Name", "Attribute"}
        /\ Contains(IF n.bases[k].node = "Name" THEN n.bases[k].id
                    ELSE get_attr_name(n.bases[k]), "BaseModel")

\* one of the decorators of the class is the dataclass marker
HasDataclassMarker(n) ==
    \E k \in 1..Len(n.decorator_list) : get_decorator_name(n.decorator_list[k]) = "dataclass"

QualifiesAsRecord(n) == HasModelBase(n) \/ HasDataclassMarker(n)

\* the files the loop has passed that were read and parsed
ParsedFiles == { python_files[i] : i \in { j \in 1..(pos - 1) : python_files[j].status = "ok" } }

ClassesOf(f) == { n \in Range(f.nodes) : IsClass(n) }

\* the records an analyzer holds, whichever analyzer ran
HeldRecords ==
    { models[i].v : i \in 1..Len(models) } \cup Range(ca_models)

\* C14: in both analyzers a class declaration is held as a record iff it
\* has a base whose name contains BaseModel or carries the dataclass
\* decorator: every held record has is_pydantic or is_dataclass, and every
\* qualifying class is held under its name, and a class that does not
\* qualify is never held.
C14_RecordRecognition ==
    /\ \A r \in HeldRecords : r.is_pydantic \/ r.is_dataclass
    /\ \A f \in ParsedFiles : \A n \in ClassesOf(f) :
          IF QualifiesAsRecord(n)
          THEN \E r \in HeldRecords : r.name = n.name
          ELSE ~ \E r \in HeldRecords : r.name = n.name /\ r.file_path = f.path

\* C14, as the analyzers behave: the version tracker holds a class iff it
\* qualifies; the CodeAnalyzer holds every class declaration of a parsed
\* file, with is_pydantic and is_dataclass telling which rule it meets.
C14_RecognitionPerAnalyzer ==
    /\ \A i \in 1..Len(models) : models[i].v.is_pydantic \/ models[i].v.is_dataclass
    /\ \A f \in ParsedFiles : \A n \in ClassesOf(f) :
          /\ tool = "version_tracker" =>
                IF QualifiesAsRecord(n)
                THEN DictHas(models, n.name)
                ELSE ~ \E i \in 1..Len(models) :
                         models[i].v.name = n.name /\ models[i].v.file_path = f.path
          /\ tool = "code_analyzer" =>
                \E m \in 1..Len(ca_models) :
                    /\ ca_models[m].name = n.name
                    /\ ca_models[m].file_path = f.path
                    /\ ca_models[m].is_pydantic <=> HasModelBase(n)
                    /\ ca_models[m].is_dataclass <=> HasDataclassMarker(n)
    /\ \A m \in 1..Len(ca_models) :
          \E f \in ParsedFiles : \E n \in ClassesOf(f) :
              ca_models[m].name = n.name /\ ca_models[m].file_path = f.path

\* the CodeAnalyzer holds a class that meets neither rule next to a dataclass
C14_Witness ==
    /\ tool = "code_analyzer"
    /\ \E m \in 1..Len(ca_models) :
          ~ca_models[m].is_pydantic /\ ~ca_models[m].is_dataclass
    /\ \E m \in 1..Len(ca_models) : ca_models[m].is_dataclass

\* the qualifying class declarations the tracker has visited, as
\* <<file index, node index>> in the order of the visit
QualifyingVisited ==
    UNION { { <<j, k>> : k \in { i \in 1..Len(python_files[j].nodes) :
                                     /\ IsClass(python_files[j].nodes[i])
                                     /\ QualifiesAsRecord(python_files[j].nodes[i]) } } :
            j \in { i \in 1..(pos - 1) : python_files[i].status = "ok" } }

VisitedBefore(a, b) == a[1] < b[1] \/ (a[1] = b[1] /\ a[2] < b[2])

DeclAt(d) == python_files[d[1]].nodes[d[2]]

\* d is the last visited qualifying declaration of its name
LastOfName(d) ==
    ~ \E d2 \in QualifyingVisited :
          DeclAt(d2).name = DeclAt(d).name /\ VisitedBefore(d, d2)

\* C21: the snapshot of the VersionTracker holds at most one record per
\* name, the names held are those of the qualifying declarations visited,
\* and the record of a name has the file path, fields and hash of the last
\* qualifying declaration of that name visited.
C21_LastWins ==
    tool = "version_tracker" =>
        /\ \A i, j \in 1..Len(models) : models[i].k = models[j].k => i = j
        /\ \A i \in 1..Len(models) : models[i].v.name = models[i].k
        /\ CurNames = { DeclAt(d).name : d \in QualifyingVisited }
        /\ \A d \in QualifyingVisited :
              LastOfName(d) =>
                  /\ DictGet(models, DeclAt(d).name).file_path = python_files[d[1]].path
                  /\ DictGet(models, DeclAt(d).name).fields = fields_of(DeclAt(d))
                  /\ DictGet(models, DeclAt(d).name).hash =
                         parse_model(DeclAt(d), python_files[d[1]].path).hash

\* User was declared with field a: int in an earlier file and twice in the
\* last file; the record held is the second declaration of the last file
C21_Witness ==
    /\ tool = "version_tracker"
    /\ pos = 3
    /\ \E d \in QualifyingVisited : d[1] = 1 /\ DeclAt(d).name = "User"
    /\ Cardinality({ d \in QualifyingVisited : d[1] = 2 /\ DeclAt(d).name = "User" }) = 2
    /\ DictGet(models, "User").file_path = "f2.py"
    /\ Len(DictGet(models, "User").fields) = 1
    /\ DictGet(models, "User").fields[1].name = "b"

\* the 'METHOD path' string of an endpoint
LabelOf(endpoint) == endpoint.method \o " " \o endpoint.path

\* the record names an endpoint refers to
ModelsNamedBy(endpoint) == {endpoint.request_model, endpoint.response_model} \ {NoneVal}

\* C27: in the VersionTracker, every endpoint whose request_model or
\* response_model names a record of the snapshot has its 'METHOD path'
\* string in that record's used_in_endpoints, and every used_in_endpoints
\* entry of a record is the string of an endpoint that names the record.
C27_LinksConsistent ==
    tool = "version_tracker" =>
        /\ \A e \in 1..Len(endpoints) :
              \A m \in ModelsNamedBy(endpoints[e]) \cap CurNames :
                  LabelOf(endpoints[e]) \in Range(DictGet(models, m).used_in_endpoints)
        /\ \A m \in CurNames :
              \A label \in Range(DictGet(models, m).used_in_endpoints) :
                  \E e \in 1..Len(endpoints) :
                      /\ LabelOf(endpoints[e]) = label
                      /\ m \in ModelsNamedBy(endpoints[e])

\* an endpoint names User, and the User record, declared again by a later
\* file, has no used_in_endpoints entry
C27_Witness ==
    /\ tool = "version_tracker"
    /\ pos = 4
    /\ \E e \in 1..Len(endpoints) :
          /\ endpoints[e].file_path = "f2.py"
          /\ "User" \in ModelsNamedBy(endpoints[e])
    /\ DictGet(models, "User").file_path = "f3.py"
    /\ DictGet(models, "User").used_in_endpoints = <<>>

(***************************************************************************)
(* One module holding two records, a class with a method and one function  *)
(* whose decorators, parameters and return annotation vary                 *)
(***************************************************************************)
DecoratorNames ==
    {"get", "post", "put", "patch", "delete", "options", "head", "GET", "cache"}

DecoratorNodes ==
    { Name(d) : d \in DecoratorNames }
    \cup
    { \* @get("/items/{id}")
      Call(Name("get"), <<Constant("/items/{id}")>>, <<>>),
      \* @get("/items/{id}", tags=["items"], deprecated=True)
      Call(Name("get"), <<Constant("/items/{id}")>>,
           <<Keyword("tags", List(<<Constant("items")>>)),
             Keyword("deprecated", Constant(TRUE))>>),
      \* @post("")
      Call(Name("post"), <<Constant("")>>, <<>>),
      \* @put(PATH)
      Call(Name("put"), <<Name("PATH")>>, <<>>),
      \* @router.get("/r")
      Call(Attribute(Name("router"), "get"), <<Constant("/r")>>, <<>>) }

DecoratorLists == UNION { [1..k -> DecoratorNodes] : k \in 0..MaxDecorators }

ArgLists ==
    { <<>>,
      <<Arg("user", "User"), Arg("foo", "Foo")>>,
      <<Arg("foo", "Foo"), Arg("user", "User")>>,
      <<Arg("req", "UserRequest"), Arg("x", "int")>>,
      <<Arg("x", NoneVal)>> }

ReturnTexts == {NoneVal, "List[User]", "FooResponse", "Dict[Foo, User]"}

GeneratedFunctions ==
    { FunctionDef("handler", ds, args, returns) :
        ds \in DecoratorLists, args \in ArgLists, returns \in ReturnTexts }

\* class User(BaseModel): a: int
\* class Foo(BaseModel): a: int
\* class Service:
\*     def method(self, x: int): ...
\* <fn>
ModuleWith(fn) ==
    [path |-> "api.py",
     status |-> "ok",
     nodes |-> ast_walk(<<ClassDef("User", <<Name("BaseModel")>>, <<>>,
                                   <<AnnAssign("a", "int", NoneVal)>>),
                          ClassDef("Foo", <<Name("BaseModel")>>, <<>>,
                                   <<AnnAssign("a", "int", NoneVal)>>),
                          ClassDef("Service", <<>>, <<>>,
                                   <<FunctionDef("method", <<>>,
                                                 <<Arg("self", NoneVal), Arg("x", "int")>>,
                                                 NoneVal)>>),
                          fn>>)]

InitParse ==
    /\ tool \in {"version_tracker", "code_analyzer"}
    /\ \E fn \in GeneratedFunctions : python_files = <<ModuleWith(fn)>>
    /\ pos = 1
    /\ models = EmptyDict
    /\ endpoints = <<>>
    /\ files_analyzed = <<>>
    /\ ca_models = <<>>
    /\ ca_functions = <<>>
    /\ ca_mappings = <<>>
    /\ raised = FALSE
    /\ pc = "walk"
    /\ disk = NoFile
    /\ changes = NotCompared
    /\ DriftIdle
    /\ DepthIdle

SpecParse == InitParse /\ [][NextWalk]_vars

(***************************************************************************)
(* Properties of endpoint and callable extraction                          *)
(***************************************************************************)
\* the module has been analysed
Parsed == pos = 2 /\ Len(python_files) = 1

\* the generated function of the module (its last top-level statement)
Handler == CHOOSE n \in Range(python_files[1].nodes) :
               n.node = "FunctionDef" /\ n.name = "handler"

\* str.lower() on the decorator names of this model
Lower(name) == IF name = "GET" THEN "get" ELSE name

\* str.upper() of a decorator name whose lower-cased form is a verb
UpperCased(name) == Upper(Lower(name))

\* the names of the decorators of n that, lower-cased, are one of the 7 verbs
VerbDecoratorNames(n) ==
    { get_decorator_name(n.decorator_list[k]) : k \in 1..Len(n.decorator_list) }
        \cap { d \in DecoratorNames \cup {"router.get", ""} : Lower(d) \in HttpVerbs }

\* the verb under which the analyzer that ran holds function n, or NoneVal
\* when it holds n as no endpoint
RecordedVerb(n) ==
    IF tool = "version_tracker"
    THEN IF \E e \in 1..Len(endpoints) : endpoints[e].function_name = n.name
         THEN endpoints[CHOOSE e \in 1..Len(endpoints) :
                           endpoints[e].function_name = n.name].method
         ELSE NoneVal
    ELSE IF \E m \in 1..Len(ca_mappings) : ca_mappings[m].function_name = n.name
         THEN ca_mappings[CHOOSE m \in 1..Len(ca_mappings) :
                             ca_mappings[m].function_name = n.name].http_method
         ELSE NoneVal

\* C12: in both analyzers a function is held as an endpoint with a verb iff
\* one of its decorators has a name that, lower-cased, is one of get, post,
\* put, patch, delete, options, head, and the verb is such a decorator
\* name upper-cased.
C12_RouteMatchRule ==
    Parsed =>
        /\ RecordedVerb(Handler) # NoneVal <=> VerbDecoratorNames(Handler) # {}
        /\ RecordedVerb(Handler) # NoneVal =>
               RecordedVerb(Handler) \in { UpperCased(d) : d \in VerbDecoratorNames(Handler) }

\* @GET def handler(): walked by the version tracker, which holds no endpoint
C12_Witness ==
    /\ Parsed
    /\ tool = "version_tracker"
    /\ Handler.decorator_list = <<Name("GET")>>
    /\ endpoints = <<>>

\* the endpoint the version tracker holds for the generated function
HandlerEndpoint ==
    endpoints[CHOOSE e \in 1..Len(endpoints) : endpoints[e].function_name = "handler"]

HandlerIsEndpoint ==
    /\ Parsed
    /\ tool = "version_tracker"
    /\ \E e \in 1..Len(endpoints) : endpoints[e].function_name = "handler"

\* the known record names that occur in a type text
KnownNamesIn(text) ==
    IF text = NoneVal THEN {} ELSE { m \in CurNames : Contains(text, m) }

\* the parameters, in declaration order, whose type text holds a known name
MatchingParams(n) == SelectSeq(n.args, LAMBDA a : KnownNamesIn(a.annotation) # {})

\* C13: the request model of an endpoint is the known record name matched
\* in the first parameter (in declaration order) whose type text contains
\* one, later parameters never replace it, and it is unset when no
\* parameter matches; the response model is a known record name contained
\* in the return type text, unset when there is none.
C13_FirstMatchWins ==
    HandlerIsEndpoint =>
        /\ IF MatchingParams(Handler) = <<>>
           THEN HandlerEndpoint.request_model = NoneVal
           ELSE HandlerEndpoint.request_model
                    \in KnownNamesIn(MatchingParams(Handler)[1].annotation)
        /\ IF KnownNamesIn(Handler.returns) = {}
           THEN HandlerEndpoint.response_model = NoneVal
           ELSE HandlerEndpoint.response_model \in KnownNamesIn(Handler.returns)

\* def handler(user: User, foo: Foo) under a route decorator: the endpoint
\* names Foo as its request model
C13_Witness ==
    /\ HandlerIsEndpoint
    /\ Handler.args = <<Arg("user", "User"), Arg("foo", "Foo")>>
    /\ HandlerEndpoint.request_model = "Foo"

\* the functions declared directly in the body of class c
MethodsOf(c) == { m \in Range(c.body) : IsFunction(m) }

\* the functions of file f that are in no class body
ModuleLevelFunctions(f) ==
    { n \in Range(f.nodes) : IsFunction(n) }
        \ UNION { MethodsOf(c) : c \in ClassesOf(f) }

\* the DeclaredCallables the CodeAnalyzer holds for function node n of f
CallablesFor(n, f) ==
    { i \in 1..Len(ca_functions) :
        ca_functions[i].name = n.name /\ ca_functions[i].file_path = f.path }

\* C15: after the CodeAnalyzer walked a module, every function declared in
\* a class body is held as a callable whose class_name is the name of that
\* class, and every module-level function as a callable whose class_name
\* is unset.
C15_EnclosingClass ==
    (Parsed /\ tool = "code_analyzer") =>
        LET f == python_files[1]
        IN /\ \A c \in ClassesOf(f) : \A m \in MethodsOf(c) :
                 /\ CallablesFor(m, f) # {}
                 /\ \A i \in CallablesFor(m, f) : ca_functions[i].class_name = c.name
           /\ \A n \in ModuleLevelFunctions(f) :
                 /\ CallablesFor(n, f) # {}
                 /\ \A i \in CallablesFor(n, f) : ca_functions[i].class_name = NoneVal

\* Service.method is held as a callable with class_name unset
C15_Witness ==
    /\ Parsed
    /\ tool = "code_analyzer"
    /\ \E i \in 1..Len(ca_functions) :
          ca_functions[i].name = "method" /\ ca_functions[i].class_name = NoneVal

\* the positions of the decorators of n that _parse_endpoint matches
MatchedDecorators(n) ==
    { k \in 1..Len(n.decorator_list) : get_decorator_name(n.decorator_list[k]) \in HttpVerbs }

\* the literal values given for keyword key in a decorator call
KeywordLiterals(d, key, kind) ==
    IF d.node # "Call" THEN {}
    ELSE { d.keywords[i].value : i \in { j \in 1..Len(d.keywords) :
                                           /\ d.keywords[j].arg = key
                                           /\ d.keywords[j].value.node = kind } }

\* the decorator has a first positional argument that is a literal
HasLiteralPath(d) ==
    /\ d.node = "Call"
    /\ Len(d.args) >= 1
    /\ d.args[1].node = "Constant"

\* C18: for a function with one matched route decorator, the endpoint's path
\* is the decorator's first positional literal argument when it has one and
\* "/" followed by the function name otherwise; tags is the literal list
\* given as keyword tags, else the empty list; deprecated is the literal
\* boolean given as keyword deprecated, else false.
C18_EndpointDefaults ==
    (HandlerIsEndpoint /\ Cardinality(MatchedDecorators(Handler)) = 1) =>
        LET d == Handler.decorator_list[CHOOSE k \in MatchedDecorators(Handler) : TRUE]
            e == HandlerEndpoint
        IN /\ e.path = IF HasLiteralPath(d) THEN d.args[1].value ELSE "/handler"
           /\ IF KeywordLiterals(d, "tags", "List") = {}
              THEN e.tags = <<>>
              ELSE \E l \in KeywordLiterals(d, "tags", "List") :
                      e.tags = [i \in 1..Len(l.elts) |-> l.elts[i].value]
           /\ IF KeywordLiterals(d, "deprecated", "Constant") = {}
              THEN e.deprecated = FALSE
              ELSE \E c \in KeywordLiterals(d, "deprecated", "Constant") :
                      e.deprecated = c.value

\* @post("") is the only matched decorator of handler, and the endpoint has
\* the synthesized path
C18_Witness ==
    /\ HandlerIsEndpoint
    /\ Cardinality(MatchedDecorators(Handler)) = 1
    /\ \E k \in MatchedDecorators(Handler) :
          /\ HasLiteralPath(Handler.decorator_list[k])
          /\ Handler.decorator_list[k].args[1].value = ""
    /\ HandlerEndpoint.path = "/handler"

\* the paths the endpoint may have when decorator d defines it (for the
\* empty literal the synthesized path is accepted as well)
PathsFrom(d) ==
    IF HasLiteralPath(d)
    THEN {d.args[1].value} \cup (IF d.args[1].value = "" THEN {"/handler"} ELSE {})
    ELSE {"/handler"}

TagsFrom(d) ==
    IF KeywordLiterals(d, "tags", "List") = {} THEN {<<>>}
    ELSE { [i \in 1..Len(l.elts) |-> l.elts[i].value] : l \in KeywordLiterals(d, "tags", "List") }

DeprecatedFrom(d) ==
    IF KeywordLiterals(d, "deprecated", "Constant") = {} THEN {FALSE}
    ELSE { c.value : c \in KeywordLiterals(d, "deprecated", "Constant") }

\* C28: when a function has several matched route decorators, the method,
\* path, tags and deprecated flag of its endpoint are those of one and the
\* same decorator.
C28_OneDecoratorOneEndpoint ==
    (HandlerIsEndpoint /\ Cardinality(MatchedDecorators(Handler)) >= 2) =>
        \E k \in MatchedDecorators(Handler) :
            /\ HandlerEndpoint.method = Upper(get_decorator_name(Handler.decorator_list[k]))
            /\ HandlerEndpoint.path \in PathsFrom(Handler.decorator_list[k])
            /\ HandlerEndpoint.tags \in TagsFrom(Handler.decorator_list[k])
            /\ HandlerEndpoint.deprecated \in DeprecatedFrom(Handler.decorator_list[k])

\* handler has get("/items/{id}", tags=["items"], deprecated=True) followed
\* by a bare post: the endpoint is POST with the path, tags and flag of get
C28_Witness ==
    /\ HandlerIsEndpoint
    /\ Len(Handler.decorator_list) = 2
    /\ get_decorator_name(Handler.decorator_list[1]) = "get"
    /\ Handler.decorator_list[2] = Name("post")
    /\ HandlerEndpoint.method = "POST"
    /\ HandlerEndpoint.path = "/items/{id}"
    /\ HandlerEndpoint.tags = <<"items">>
    /\ HandlerEndpoint.deprecated = TRUE

\* the function declarations of a file, nested ones included
FunctionsOf(f) == { n \in Range(f.nodes) : IsFunction(n) }

\* the annotation texts of the parameters and of the return of a function
ParamTexts(n) == { n.args[i].annotation : i \in 1..Len(n.args) } \ {NoneVal}

ReturnText(n) == IF n.returns = NoneVal THEN {} ELSE {n.returns}

\* the analyzer that ran finds on function n no verb decorator, no request
\* model and no response model
NothingDetected(n) ==
    IF tool = "version_tracker"
    THEN /\ \A k \in 1..Len(n.decorator_list) :
              get_decorator_name(n.decorator_list[k]) \notin HttpVerbs
         /\ \A t \in ParamTexts(n) \cup ReturnText(n) : KnownNamesIn(t) = {}
    ELSE /\ \A k \in 1..Len(n.decorator_list) :
              ca_get_decorator_name(n.decorator_list[k]) \notin CaHttpVerbs
         /\ \A t \in ParamTexts(n) :
              ~(Contains(t, "Request") \/ Contains(t, "Input") \/ Contains(t, "Body"))
         /\ \A t \in ReturnText(n) :
              ~(Contains(t, "Response") \/ Contains(t, "Output"))

\* function n is held as an endpoint (VersionTracker) or mapping (CodeAnalyzer)
RecordedAsEndpoint(n) ==
    \/ \E e \in 1..Len(endpoints) : endpoints[e].function_name = n.name
    \/ \E m \in 1..Len(ca_mappings) : ca_mappings[m].function_name = n.name

\* C19: every endpoint and every mapping an analyzer holds has a verb, a
\* request model or a response model; after the walk a function on which
\* none of the three is detected is held as no endpoint or mapping, and the
\* CodeAnalyzer still holds it as a callable.
C19_MappingExistence ==
    /\ \A e \in 1..Len(endpoints) :
          \/ endpoints[e].method # NoneVal
          \/ endpoints[e].request_model # NoneVal
          \/ endpoints[e].response_model # NoneVal
    /\ \A m \in 1..Len(ca_mappings) :
          \/ ca_mappings[m].http_method # NoneVal
          \/ ca_mappings[m].request_models # <<>>
          \/ ca_mappings[m].response_models # <<>>
    /\ Parsed =>
          \A n \in FunctionsOf(python_files[1]) :
              NothingDetected(n) =>
                  /\ ~RecordedAsEndpoint(n)
                  /\ tool = "code_analyzer" => CallablesFor(n, python_files[1]) # {}

\* the CodeAnalyzer walked a module in which handler has a decorator that is
\* no verb and nothing else to detect: handler is a callable and no mapping,
\* while no mapping at all was recorded for the file
C19_Witness ==
    /\ Parsed
    /\ tool = "code_analyzer"
    /\ Handler.decorator_list # <<>>
    /\ NothingDetected(Handler)
    /\ CallablesFor(Handler, python_files[1]) # {}
    /\ ca_mappings = <<>>

(***************************************************************************)
(* A version_tracker run against a previous snapshot file that may have    *)
(* been edited: analyze_directory, then compare_with_previous              *)
(***************************************************************************)
\* a JSON object without one of its keys
Without(obj, key) == [k \in DOMAIN obj \ {key} |-> obj[k]]

\* the snapshot with entry i of "models" replaced
WithModel(snapshot, i, entry) ==
    [snapshot EXCEPT !.models = [j \in 1..Len(snapshot.models) |->
                                    IF j = i THEN entry ELSE snapshot.models[j]]]

\* what may have become of an exported snapshot before it is compared: it
\* is untouched, or its first record lost its hash, its fields list, or one
\* of its field entries lost its type
EditsOf(snapshot) ==
    {snapshot}
    \cup (IF snapshot.models = <<>> THEN {}
          ELSE LET m == snapshot.models[1]
               IN { WithModel(snapshot, 1, Without(m, "hash")),
                    WithModel(snapshot, 1, Without(m, "fields")) }
                  \cup { WithModel(snapshot, 1,
                             [m EXCEPT !.fields =
                                 [j \in 1..Len(m.fields) |->
                                     IF j = i THEN Without(m.fields[j], "type")
                                     ELSE m.fields[j]]]) : i \in 1..Len(m.fields) })

\* class Foo(BaseModel, Mixin): a: int
FooMixin ==
    ClassDef("Foo", <<Name("BaseModel"), Name("Mixin")>>, <<>>,
             <<AnnAssign("a", "int", NoneVal)>>)

\* the snapshot files an earlier run can have written
ExportedSnapshots ==
    { export_to_json(FoldModels(EmptyDict, decls, "models.py")) :
        decls \in { <<u>> : u \in UserDecls } \cup { <<u, FooMixin>> : u \in UserDecls } }

PreviousFiles == {NoFile} \cup UNION { EditsOf(snapshot) : snapshot \in ExportedSnapshots }

\* @post("/users")  def create(user: User) -> User
CreateUser ==
    FunctionDef("create", <<Call(Name("post"), <<Constant("/users")>>, <<>>)>>,
                <<Arg("user", "User")>>, "User")

\* models.py: one User class, one Foo class and a route
ModelsModule(u, f) ==
    [path |-> "models.py", status |-> "ok", nodes |-> ast_walk(<<u, f, CreateUser>>)]

InitDiff ==
    /\ tool = "version_tracker"
    /\ \E u \in UserDecls : \E f \in FooDecls : python_files = <<ModelsModule(u, f)>>
    /\ disk \in PreviousFiles
    /\ pos = 1
    /\ models = EmptyDict
    /\ endpoints = <<>>
    /\ files_analyzed = <<>>
    /\ ca_models = <<>>
    /\ ca_functions = <<>>
    /\ ca_mappings = <<>>
    /\ raised = FALSE
    /\ pc = "walk"
    /\ changes = NotCompared
    /\ DriftIdle
    /\ DepthIdle

\* a differ that takes the records it compared out of the tracker
CompareWithPrevious_consuming ==
    /\ tool = "version_tracker"
    /\ ~raised
    /\ pos > Len(python_files)
    /\ pc \in {"walk", "compared"}
    /\ changes' = compare_with_previous(disk, models)
    /\ models' = EmptyDict
    /\ pc' = IF pc = "walk" THEN "compared" ELSE "compared_again"
    /\ UNCHANGED <<disk, walkVars>>

\* tracker.compare_with_previous(previous_file), called once the walk is
\* over and possibly a second time on the same file
CompareWithPrevious ==
    /\ tool = "version_tracker"
    /\ ~raised
    /\ pos > Len(python_files)
    /\ pc \in {"walk", "compared"}
    /\ changes' = compare_with_previous(disk, models)
    /\ pc' = IF pc = "walk" THEN "compared" ELSE "compared_again"
    /\ UNCHANGED <<models, disk, walkVars>>

NextDiff ==
    \/ VtAnalyzeNext /\ UNCHANGED <<driftVars, depthVars>>
    \/ CompareWithPrevious /\ UNCHANGED <<driftVars, depthVars>>

SpecDiff == InitDiff /\ [][NextDiff]_vars

\* the entry of a previous snapshot has an unexpected shape
Affected(entry) ==
    \/ "hash" \notin DOMAIN entry
    \/ "fields" \notin DOMAIN entry
    \/ /\ "fields" \in DOMAIN entry
       /\ \E i \in 1..Len(entry.fields) : "type" \notin DOMAIN entry.fields[i]

\* C16: when the previous snapshot file exists, also with a record entry
\* that lacks its hash, its fields list or the type of a field,
\* compare_with_previous returns a ChangeSet in which that record is in
\* models_modified, while models_added and models_removed are what the two
\* name sets give and every other record of both snapshots is in
\* models_modified iff its hashes differ.
C16_DifferDegrades ==
    Compared =>
        /\ changes # EmptyResult
        /\ Range(changes.models_added) = CurNames \ PrevNames
        /\ Range(changes.models_removed) = PrevNames \ CurNames
        /\ \A n \in PrevNames \cap CurNames :
              IF Affected(PrevRecord(n))
              THEN n \in Range(changes.models_modified)
              ELSE n \in Range(changes.models_modified)
                      <=> CurRecord(n).hash # PrevRecord(n).hash

\* the previous entry of User has a field without type, User is declared
\* with another shape now, and the comparison returned the empty result
C16_Witness ==
    /\ Compared
    /\ "User" \in PrevNames \cap CurNames
    /\ "hash" \in DOMAIN PrevRecord("User")
    /\ "fields" \in DOMAIN PrevRecord("User")
    /\ Affected(PrevRecord("User"))
    /\ CurRecord("User").hash # PrevRecord("User").hash
    /\ changes = EmptyResult

\* C20: a call of compare_with_previous leaves models (with every record's
\* fields, hash and used_in_endpoints), endpoints and files_analyzed as they
\* were, whether it returns a ChangeSet or the empty result, and a second
\* call on the same previous file returns what the first returned.
C20_DiffStateless ==
    [][(pc' # pc /\ pc' \in {"compared", "compared_again"}) =>
          /\ models' = models
          /\ endpoints' = endpoints
          /\ files_analyzed' = files_analyzed
          /\ pc' = "compared_again" => changes' = changes]_vars

\* compare_with_previous was called twice on a tracker whose User record is
\* used by an endpoint, and reported User as modified
C20_Witness ==
    /\ pc = "compared_again"
    /\ changes # EmptyResult
    /\ "User" \in Range(changes.models_modified)
    /\ DictGet(models, "User").used_in_endpoints # <<>>
    /\ endpoints # <<>>
    /\ files_analyzed = <<"models.py">>

\* compare_with_previous was called twice and failed both times
C20_WitnessFailed ==
    /\ pc = "compared_again"
    /\ disk # NoFile
    /\ changes = EmptyResult
    /\ models # EmptyDict

(***************************************************************************)
(* A drift_detector run: main() of drift_detector.py                       *)
(***************************************************************************)
Absent == [absent |-> TRUE]

MethodName(i) == "method_" \o ToString(i)

\* what the inventory may say about one method
InventoryEntries ==
    { [classification |-> [integration_tier |-> tier, domain |-> domain],
       models |-> [request |-> request, response |-> "Resp"],
       version |-> "1.0.0"] :
        tier \in {"internal", "external"}, request \in {"ReqA", "ReqB"},
        domain \in {"d1", "d2"} }

\* what the registry may hold for one method (MethodDefinition)
MethodDefs ==
    { [service_class |-> "Service",
       request_model_class |-> "ReqA",
       response_model_class |-> "Resp",
       classification |-> [integration_tier |-> "internal", domain |-> "d1"],
       version |-> version] : version \in {"1.0.0", "2.0.0"} }

Present(f) == SelectSeq([i \in 1..NumMethods |-> i], LAMBDA i : f[i] # Absent)

InventoryFiles ==
    { [methods |->
          [i \in 1..Len(Present(f)) |-> [k |-> MethodName(Present(f)[i]), v |-> f[Present(f)[i]]]]] :
        f \in [1..NumMethods -> InventoryEntries \cup {Absent}] }

Registries ==
    { [MANAGED_METHODS |->
          [i \in 1..Len(Present(g)) |->
              [method_name |-> MethodName(Present(g)[i]),
               service_class |-> g[Present(g)[i]].service_class,
               request_model_class |-> g[Present(g)[i]].request_model_class,
               response_model_class |-> g[Present(g)[i]].response_model_class,
               classification |-> g[Present(g)[i]].classification,
               version |-> g[Present(g)[i]].version]]] :
        g \in [1..NumMethods -> MethodDefs \cup {Absent}] }

InitDrift ==
    /\ dpc = "start"
    /\ collider_exists \in BOOLEAN
    /\ inventory_file \in InventoryFiles \cup {NoFile}
    /\ registry \in Registries \cup {ImportFails}
    /\ ci_mode \in BOOLEAN
    /\ inventory = EmptyDict
    /\ code_methods = EmptyDict
    /\ drift = <<>>
    /\ score = <<>>
    /\ exit_code = NoExit
    /\ TrackerIdle
    /\ WalkIdle
    /\ DepthIdle

\* setup_collider_path(): sys.exit(1) when the application repo is missing
SetupColliderPath ==
    /\ dpc = "start"
    /\ IF collider_exists
       THEN dpc' = "setup" /\ UNCHANGED exit_code
       ELSE dpc' = "failed" /\ exit_code' = 1
    /\ UNCHANGED <<collider_exists, inventory_file, registry, inventory,
                   code_methods, ci_mode, drift, score>>

\* yaml.safe_load(f) of an inventory document
load_inventory(file) == file.methods

\* load_inventory(): FileNotFoundError is caught by main's handler, exit 1
LoadInventory ==
    /\ dpc = "setup"
    /\ IF inventory_file = NoFile
       THEN dpc' = "failed" /\ exit_code' = 1 /\ UNCHANGED inventory
       ELSE dpc' = "loaded" /\ inventory' = load_inventory(inventory_file) /\ UNCHANGED exit_code
    /\ UNCHANGED <<collider_exists, inventory_file, registry,
                   code_methods, ci_mode, drift, score>>

GetCodeMethods ==
    /\ dpc = "loaded"
    /\ code_methods' = get_code_methods(registry)
    /\ dpc' = "have_methods"
    /\ UNCHANGED <<collider_exists, inventory_file, registry, inventory,
                   ci_mode, drift, score, exit_code>>

\* detect_drift, calculate_drift_score, the report and sys.exit
DetectAndExit ==
    /\ dpc = "have_methods"
    /\ drift' = detect_drift(inventory, code_methods)
    /\ score' = calculate_drift_score(drift')
    /\ exit_code' = exit_status(ci_mode, score')
    /\ dpc' = "exited"
    /\ UNCHANGED <<collider_exists, inventory_file, registry, inventory,
                   code_methods, ci_mode>>

NextDrift ==
    \/ SetupColliderPath /\ UNCHANGED <<trackerVars, walkVars, depthVars>>
    \/ LoadInventory /\ UNCHANGED <<trackerVars, walkVars, depthVars>>
    \/ GetCodeMethods /\ UNCHANGED <<trackerVars, walkVars, depthVars>>
    \/ DetectAndExit /\ UNCHANGED <<trackerVars, walkVars, depthVars>>

SpecDrift == InitDrift /\ [][NextDrift]_vars

\* the run has ended, by sys.exit in main or in setup_collider_path
RunEnded == dpc \in {"failed", "exited"}

\* C17: a drift_detector run whose inventory file is missing or whose import
\* of MANAGED_METHODS fails ends with a non-zero exit status without having
\* computed (and reported) a drift result.
C17_MissingResourceFatal ==
    (RunEnded /\ (inventory_file = NoFile \/ registry = ImportFails)) =>
        /\ exit_code = 1
        /\ dpc = "failed"
        /\ drift = <<>>

\* the import failed, and the run reported the drift of a non-empty inventory
\* against the empty registry and exited with status 0
C17_Witness ==
    /\ dpc = "exited"
    /\ registry = ImportFails
    /\ inventory # EmptyDict
    /\ code_methods = EmptyDict
    /\ drift # <<>>
    /\ exit_code = 0

(***************************************************************************)
(* calculate_drift_score applied to any drift dict                         *)
(***************************************************************************)
Categories == <<"new_methods", "deleted_methods", "changed_signatures",
                "changed_classification", "version_changes">>

Items(n) == [i \in 1..n |-> [method |-> MethodName(i)]]

DriftDicts ==
    { [c \in 1..Len(Categories) |-> [k |-> Categories[c], v |-> Items(n[c])]] :
        n \in [1..Len(Categories) -> 0..MaxItems] }

InitScore ==
    /\ dpc = "score_input"
    /\ drift \in DriftDicts
    /\ score = <<>>
    /\ collider_exists = TRUE
    /\ inventory_file = NoFile
    /\ registry = [MANAGED_METHODS |-> <<>>]
    /\ inventory = EmptyDict
    /\ code_methods = EmptyDict
    /\ ci_mode = FALSE
    /\ exit_code = NoExit
    /\ TrackerIdle
    /\ WalkIdle
    /\ DepthIdle

CalculateDriftScore ==
    /\ dpc = "score_input"
    /\ score' = calculate_drift_score(drift)
    /\ dpc' = "scored"
    /\ UNCHANGED <<drift, collider_exists, inventory_file, registry, inventory,
                   code_methods, ci_mode, exit_code, trackerVars, walkVars,
                   depthVars>>

NextScore == CalculateDriftScore

SpecScore == InitScore /\ [][NextScore]_vars

\* calculate_drift_score takes any Dict[str, List]: the five keys of the weights
\* table and one key the table does not have
AnyCategories == Categories \o <<"renamed_methods">>

AnyDriftDicts ==
    { [c \in 1..Len(AnyCategories) |-> [k |-> AnyCategories[c], v |-> Items(n[c])]] :
        n \in [1..Len(AnyCategories) -> 0..MaxItems] }

InitScoreAny ==
    /\ dpc = "score_input"
    /\ drift \in AnyDriftDicts
    /\ score = <<>>
    /\ collider_exists = TRUE
    /\ inventory_file = NoFile
    /\ registry = [MANAGED_METHODS |-> <<>>]
    /\ inventory = EmptyDict
    /\ code_methods = EmptyDict
    /\ ci_mode = FALSE
    /\ exit_code = NoExit
    /\ TrackerIdle
    /\ WalkIdle
    /\ DepthIdle

SpecScoreAny == InitScoreAny /\ [][NextScore]_vars

(***************************************************************************)
(* MappingAnalyzer._calculate_depth, one step per call, entry and return   *)
(***************************************************************************)
\* the annotations a field of a model may have
RefTypes == {"int", "User", "Foo", "Dict[Foo, User]"}

\* class <name>(BaseModel) with one annotated field per type of the list
RefDecl(name, types) ==
    ClassDef(name, <<Name("BaseModel")>>, <<>>,
             [i \in 1..Len(types) |-> AnnAssign("f" \o ToString(i), types[i], NoneVal)])

RefTypeLists == UNION { [1..k -> RefTypes] : k \in 0..MaxRefFields }

\* tracker.models after the analysis of a file declaring User, or User and Foo
DepthModels ==
    { FoldModels(EmptyDict, <<RefDecl("User", ut)>>, "models.py") : ut \in RefTypeLists }
    \cup { FoldModels(EmptyDict, <<RefDecl("User", ut), RefDecl("Foo", ft)>>, "models.py") :
             ut \in RefTypeLists, ft \in RefTypeLists }

\* "for other_model in self.tracker.models.keys(): if other_model in field.type"
RefsOfType(type) == SelectSeq(DictKeys(models), LAMBDA other_model : Contains(type, other_model))

\* the recursive calls one activation makes, in the order of its two loops
RECURSIVE RefsOfFields(_)
RefsOfFields(fields) ==
    IF fields = <<>> THEN <<>>
    ELSE RefsOfType(Head(fields).type) \o RefsOfFields(Tail(fields))

CallsOf(model_name) == RefsOfFields(DictGet(models, model_name).fields)

\* "return 0  # Circular reference"
circular_reference_depth == 0

\* an activation at its first statement
Activation(model_name, visited) ==
    [model_name |-> model_name, visited |-> visited, at |-> "entry",
     next |-> 1, max_depth |-> 0]

Top == call_stack[Len(call_stack)]

Max(a, b) == IF a >= b THEN a ELSE b

AfterReturn_plus_two(value) ==
    IF Len(call_stack) = 1 THEN <<>>
    ELSE [SubSeq(call_stack, 1, Len(call_stack) - 1)
             EXCEPT ![Len(call_stack) - 1] =
                 [@ EXCEPT !.max_depth = Max(@, 2 + value), !.next = @ + 1]]

\* the stack once the innermost activation has returned value: the caller
\* does "depth = 1 + <value>; max_depth = max(max_depth, depth)" and goes on
\* with its loops
AfterReturn(value) ==
    IF Len(call_stack) = 1 THEN <<>>
    ELSE [SubSeq(call_stack, 1, Len(call_stack) - 1)
             EXCEPT ![Len(call_stack) - 1] =
                 [@ EXCEPT !.max_depth = Max(@, 1 + value), !.next = @ + 1]]

InitDepth ==
    /\ models \in DepthModels
    /\ \E model_name \in Range(DictKeys(models)) :
          call_stack = <<Activation(model_name, {})>>
    /\ returned = <<>>
    /\ pc = "idle"
    /\ disk = NoFile
    /\ changes = NotCompared
    /\ WalkIdle
    /\ DriftIdle

\* "if model_name in visited: return 0", else "visited.add(model_name)"
DepthEntry ==
    /\ call_stack # <<>>
    /\ Top.at = "entry"
    /\ IF Top.model_name \in Top.visited
       THEN /\ call_stack' = AfterReturn(circular_reference_depth)
            /\ returned' = IF Len(call_stack) = 1 THEN <<circular_reference_depth>>
                            ELSE returned
       ELSE /\ call_stack' = [call_stack EXCEPT ![Len(call_stack)] =
                                 [@ EXCEPT !.at = "loop",
                                           !.visited = @ \cup {Top.model_name}]]
            /\ UNCHANGED returned
    /\ UNCHANGED <<trackerVars, walkVars, driftVars>>

\* "self._calculate_depth(other_model, visited.copy())" for the next
\* model name found in a field type
DepthCall ==
    /\ call_stack # <<>>
    /\ Top.at = "loop"
    /\ Top.next <= Len(CallsOf(Top.model_name))
    /\ call_stack' = Append(call_stack,
                            Activation(CallsOf(Top.model_name)[Top.next], Top.visited))
    /\ UNCHANGED <<returned, trackerVars, walkVars, driftVars>>

\* both loops are over: "return max_depth"
DepthReturn ==
    /\ call_stack # <<>>
    /\ Top.at = "loop"
    /\ Top.next > Len(CallsOf(Top.model_name))
    /\ call_stack' = AfterReturn(Top.max_depth)
    /\ returned' = IF Len(call_stack) = 1 THEN <<Top.max_depth>> ELSE returned
    /\ UNCHANGED <<trackerVars, walkVars, driftVars>>

NextDepth == DepthEntry \/ DepthCall \/ DepthReturn

SpecDepth == InitDepth /\ [][NextDepth]_vars

\* an activation that can take a step takes it
SpecDepthFair == SpecDepth /\ WF_vars(NextDepth)

\* the number of models of the tracker
NumModels == Len(models)

\* C25: every call of _calculate_depth returns: the outermost call ends
\* with a result; meanwhile the activations on the stack belong to
\* different models except for the innermost one at its entry, so they are
\* at most the number of models plus one; an activation at its entry
\* whose model is on the path returns 0 to its caller; the depth an
\* activation holds and the result are at most the number of models.
C25_DepthTerminates ==
    /\ [](/\ Len(call_stack) <= NumModels + 1
          /\ \A i, j \in 1..Len(call_stack) :
                (i < j /\ call_stack[j].at = "loop") =>
                    call_stack[i].model_name # call_stack[j].model_name
          /\ \A i \in 1..Len(call_stack) : call_stack[i].max_depth <= NumModels
          /\ returned # <<>> => returned[1] \in 0..NumModels)
    /\ [][(/\ call_stack # <<>>
           /\ Top.at = "entry"
           /\ Top.model_name \in Top.visited
           /\ Len(call_stack) > 1) =>
              /\ Len(call_stack') = Len(call_stack) - 1
              /\ call_stack'[Len(call_stack')].max_depth =
                     Max(call_stack[Len(call_stack) - 1].max_depth, 1 + 0)]_vars
    /\ <>(call_stack = <<>> /\ returned # <<>>)

\* User and Foo reference each other and User references itself; the call
\* for User has returned the number of models
C25_Witness ==
    /\ call_stack = <<>>
    /\ returned = <<2>>
    /\ NumModels = 2
    /\ "User" \in Range(CallsOf("User"))
    /\ "Foo" \in Range(CallsOf("User"))
    /\ "User" \in Range(CallsOf("Foo"))

(***************************************************************************)
(* Properties of drift_detector                                            *)
(***************************************************************************)
\* C4 as claimed: a run that completes exits 0 when detect_drift finds no
\* drift and 1 when it finds at least one change.
C4_ExitCodeFollowsDrift ==
    dpc = "exited" =>
        /\ score.total_changes = 0 => exit_code = 0
        /\ score.total_changes > 0 => exit_code = 1

\* C4 amended: a run that completes exits 1 exactly when --ci-mode is given
\* and detect_drift finds at least one change, and 0 otherwise (no drift,
\* or drift without --ci-mode).
C4_ExitCodeInCiMode ==
    dpc = "exited" =>
        /\ exit_code \in {0, 1}
        /\ exit_code = 1 <=> (ci_mode /\ score.total_changes > 0)

\* a completed run without --ci-mode that found drift
C4_Witness ==
    /\ dpc = "exited"
    /\ ~ci_mode
    /\ score.total_changes > 0
    /\ exit_code = 0

\* the method names listed under a category of the drift result
MethodsUnder(category) ==
    { DictGet(drift, category)[i].method : i \in 1..Len(DictGet(drift, category)) }

InventoryNames == Range(DictKeys(inventory))

CodeNames == Range(DictKeys(code_methods))

\* classification.integration_tier of an inventory method
TierOf(m) == DictGet(inventory, m).classification.integration_tier

C23_WitnessNew ==
    /\ dpc = "exited"
    /\ MethodsUnder("new_methods") # {}
    /\ InventoryNames # {}

\* C24: a completed run with --ci-mode exits 1 if and only if the score
\* has requires_update, which is the case exactly when some category of
\* the drift result is not empty, and exits 0 otherwise.
C24_CiGating ==
    (dpc = "exited" /\ ci_mode) =>
        /\ exit_code \in {0, 1}
        /\ exit_code = 1 <=> score.requires_update
        /\ score.requires_update <=>
               \E i \in 1..Len(drift) : drift[i].v # <<>>

\* a completed --ci-mode run that found drift of low severity
C24_Witness ==
    /\ dpc = "exited"
    /\ ci_mode
    /\ score.requires_update
    /\ score.severity = "low"
    /\ exit_code = 1

\* a completed --ci-mode run on a non-empty inventory that found no drift
C24_WitnessClean ==
    /\ dpc = "exited"
    /\ ci_mode
    /\ inventory # EmptyDict
    /\ ~score.requires_update
    /\ exit_code = 0

LenOf(d, category) == Len(DictGet(d, category))

OneMoreDeleted(d) ==
    DictSet(d, "deleted_methods",
            Append(DictGet(d, "deleted_methods"), [method |-> "one_more", was_internal |-> TRUE]))

\* C5: drift_score = 1*|new_methods| + 3*|deleted_methods|
\* + 2*|changed_signatures| + 1*|changed_classification| + 1*|version_changes|,
\* and one more deleted_methods entry in an otherwise equal drift dict gives
\* a score higher by exactly 3.
C5_WeightedSum ==
    dpc = "scored" =>
        /\ score.drift_score =
               1 * LenOf(drift, "new_methods") + 3 * LenOf(drift, "deleted_methods")
               + 2 * LenOf(drift, "changed_signatures")
               + 1 * LenOf(drift, "changed_classification")
               + 1 * LenOf(drift, "version_changes")
        /\ calculate_drift_score(OneMoreDeleted(drift)).drift_score = score.drift_score + 3

\* a scored drift dict with entries in every category
C5_Witness ==
    /\ dpc = "scored"
    /\ \A c \in 1..Len(Categories) : LenOf(drift, Categories[c]) > 0
    /\ LenOf(drift, "deleted_methods") # LenOf(drift, "changed_signatures")

\* C6: severity is none iff score = 0, low iff 1 <= score <= 3, medium iff
\* 4 <= score <= 10, high iff score > 10.
C6_SeverityBuckets ==
    dpc = "scored" =>
        /\ score.severity = "none" <=> score.drift_score = 0
        /\ score.severity = "low" <=> (1 <= score.drift_score /\ score.drift_score <= 3)
        /\ score.severity = "medium" <=> (4 <= score.drift_score /\ score.drift_score <= 10)
        /\ score.severity = "high" <=> score.drift_score > 10

\* the upper boundary of medium
C6_Witness ==
    /\ dpc = "scored"
    /\ score.drift_score = 10
    /\ score.severity = "medium"

\* C30: severity is "none" exactly when drift_score is 0, exactly when
\* total_changes is 0, exactly when requires_update is false; and drift_score
\* is never below total_changes, also with a category outside the weights table.
C30_NoneIffNoChanges ==
    dpc = "scored" =>
        /\ score.severity = "none" <=> score.drift_score = 0
        /\ score.drift_score = 0 <=> score.total_changes = 0
        /\ score.total_changes = 0 <=> ~score.requires_update
        /\ score.drift_score >= score.total_changes
        /\ score.total_changes = SumLen(drift)

\* the only entries are under the key the weights table does not have
C30_Witness ==
    /\ dpc = "scored"
    /\ LenOf(drift, "renamed_methods") > 0
    /\ score.total_changes = LenOf(drift, "renamed_methods")
    /\ score.drift_score = score.total_changes
    /\ score.requires_update

\* nothing drifted
C30_WitnessNone ==
    /\ dpc = "scored"
    /\ score.total_changes = 0
    /\ score.severity = "none"
    /\ ~score.requires_update

====
